---- MODULE Spec2Model ----
(***************************************************************************)
(* SwiftCRM backend: the lead, activity and dashboard routes               *)
(* (routes/leads.js, routes/activities.js, routes/dashboard.js) over the   *)
(* leads and activities tables, the authenticate middleware in front of    *)
(* them, and the Socket.IO server (socket/socket.js) that the routes emit  *)
(* their events through.                                                   *)
(*                                                                         *)
(* Texts that the code inspects character by character (lead name, email,  *)
(* company, the search string) are sequences of one-character strings.     *)
(* Titles, types and statuses, which the code only compares, are strings.  *)
(* The lead columns phone, source and notes and the activity column        *)
(* description are stored and returned but never inspected by the routes;  *)
(* they are left out of the rows.                                          *)
(*                                                                         *)
(* Each handler is modelled twice: as one action (the request served with  *)
(* nothing in between), and await by await (Begin, then one action per     *)
(* label of Program), with the mail transport and the database faults as   *)
(* the environment.                                                        *)
(***************************************************************************)
EXTENDS Integers, Sequences, FiniteSets, TLC

VARIABLES leads, activities, nextLeadId, nextActivityId, resp,
          isEmailConfigured, pending, sockets

vars == <<leads, activities, nextLeadId, nextActivityId, resp,
          isEmailConfigured, pending, sockets>>

(* ------------------------------ bounds -------------------------------- *)

\* number of lead rows ever inserted (the autoincrement key is never reused)
MaxLeads == 2
\* number of activity rows ever inserted
MaxActivities == 2
\* number of activity rows of the table that the dashboard is asked for
MaxStored == 12

(* ------------------------------ users --------------------------------- *)

\* the users table: two sales executives, a manager and an admin
Users == 1..4

Role(u) ==
  CASE u = 1 -> "Sales Executive"
    [] u = 2 -> "Sales Executive"
    [] u = 3 -> "Manager"
    [] u = 4 -> "Admin"
    [] u = 5 -> "Sales Executive"

\* the rows of the users table: the users above, who are active and send the
\* requests, and user 5, a deactivated Sales Executive
UserIds == 1..5

IsActive(u) == u \in Users

\* a null foreign key (ids start at 1)
NULL == 0
\* a null text column
NULLTEXT == <<"<null>">>

(* ------------------------------ texts --------------------------------- *)

Lower(c) ==
  CASE c = "A" -> "a"
    [] c = "B" -> "b"
    [] c = "C" -> "c"
    [] OTHER -> c

RECURSIVE TrimLeft(_)
TrimLeft(s) ==
  IF s # <<>> /\ Head(s) = " " THEN TrimLeft(Tail(s)) ELSE s

RECURSIVE TrimRight(_)
TrimRight(s) ==
  IF s # <<>> /\ s[Len(s)] = " " THEN TrimRight(SubSeq(s, 1, Len(s) - 1)) ELSE s

\* express-validator's trim() sanitizer
Trim(s) == TrimRight(TrimLeft(s))

\* express-validator's isEmail(), reduced to: one "@" with a non-empty,
\* blank-free part on each side
IsEmail(s) ==
  /\ s # NULLTEXT
  /\ \E i \in 2..(Len(s) - 1) :
       /\ s[i] = "@"
       /\ \A j \in 1..Len(s) : (j # i) => (s[j] # "@" /\ s[j] # " ")

\* SQL LIKE matching of the pattern p against s, case-insensitively:
\* "%" stands for any run of characters, "_" for any one character
RECURSIVE LikeMatch(_, _)
LikeMatch(s, p) ==
  IF p = <<>> THEN s = <<>>
  ELSE IF Head(p) = "%"
       THEN LikeMatch(s, Tail(p)) \/ (s # <<>> /\ LikeMatch(Tail(s), p))
       ELSE /\ s # <<>>
            /\ (Head(p) = "_" \/ Lower(Head(s)) = Lower(Head(p)))
            /\ LikeMatch(Tail(s), Tail(p))

\* column ILIKE '%search%'; a null column matches nothing
ILike(v, search) ==
  /\ v # NULLTEXT
  /\ LikeMatch(v, <<"%">> \o search \o <<"%">>)

(* ------------------------------ rows ---------------------------------- *)

Statuses == {"New", "Contacted", "Qualified", "Proposal", "Negotiation", "Won", "Lost"}

ActivityTypes == {"Note", "Call", "Meeting", "Email", "Status Change"}

\* the columns of a lead that a request body can name
LeadColumns ==
  {"name", "email", "company", "status", "estimatedValue", "createdById",
   "assignedToId"}

Has(body, k) == k \in DOMAIN body

Get(body, k, d) == IF k \in DOMAIN body THEN body[k] ELSE d

LeadIds == DOMAIN leads

ActivityIds == DOMAIN activities

\* the model validators and column constraints of Lead, and the foreign
\* keys to users
LeadRowValid(row) ==
  /\ row.name # NULLTEXT /\ Trim(row.name) # <<>>
  /\ IsEmail(row.email)
  /\ row.status \in Statuses
  /\ row.assignedToId \in UserIds \cup {NULL}
  /\ row.createdById \in UserIds

\* ActivityRowValid without the foreign key to leads
ActivityRowValid_NoLeadKey(row) ==
  /\ row.type \in ActivityTypes
  /\ row.userId \in UserIds

\* the column constraints of Activity, and its foreign keys
ActivityRowValid(row) ==
  /\ row.type \in ActivityTypes
  /\ row.leadId \in LeadIds
  /\ row.userId \in UserIds

NoLead == [id |-> NULL]

NoBody == [none |-> TRUE]

\* the response of a request, with what the handler published on the way:
\* rows are the records in the answer, total the count of a list, mails the
\* sendEmail calls, events the io.emit calls, old the record as fetched
Blank(op, user, id, body) ==
  [op |-> op, user |-> user, id |-> id, body |-> body, code |-> 0,
   rows |-> <<>>, total |-> 0, pages |-> 0, mails |-> <<>>, events |-> <<>>,
   old |-> NoLead]

Answer(op, user, id, body, code) ==
  [Blank(op, user, id, body) EXCEPT !.code = code]

\* the requests the server can have in flight at once
Handlers == {"h1", "h2"}

\* what the dashboard has read before its first query
NoStats ==
  [totalLeads |-> 0, leadsByStatus |-> <<>>, totalValue |-> 0,
   recentActivities |-> <<>>, wonLeads |-> 0]

\* a handler between two of its awaits: the request, the labels still to run
\* (todo), the record as fetched (old), the instance the handler holds (inst),
\* whether its row change is written (persisted), the sendEmail calls with
\* their results (mails), the io.emit calls (events), the values the
\* dashboard has read so far (stats), and the row as it was stored when the
\* handler wrote to it (before)
NoRequest ==
  [op |-> "none", user |-> NULL, id |-> NULL, body |-> NoBody, todo |-> <<>>,
   old |-> NoLead, inst |-> NoLead, persisted |-> FALSE, mails |-> <<>>,
   events |-> <<>>, stats |-> NoStats, before |-> NoLead]

\* the connections a client can open
SocketIds == {"s1", "s2"}

\* a socket that is not connected: the error its last handshake was refused
\* with, the user it was accepted for, the rooms it is in, the events sent to
\* it since it was accepted, and for each lead id the client has named, the
\* name of its last event for that id
NoSocket ==
  [connected |-> FALSE, error |-> "", userId |-> NULL, rooms |-> {},
   received |-> <<>>, last |-> <<>>]

\* a freshly synchronised database, no request in flight, no socket
\* connected, and the mail
\* variables (EMAIL_HOST, EMAIL_PORT, EMAIL_USER, EMAIL_PASS) not set;
\* isEmailConfigured stands for the test of sendEmail, the variables set and
\* the transporter created
Init ==
  /\ leads = <<>>
  /\ activities = <<>>
  /\ nextLeadId = 1
  /\ nextActivityId = 1
  /\ resp = Blank("none", NULL, NULL, NoBody)
  /\ isEmailConfigured = FALSE
  /\ pending = [h \in Handlers |-> NoRequest]
  /\ sockets = [s \in SocketIds |-> NoSocket]

(* ------------------------- storage primitives ------------------------- *)

\* Model.create / instance.update: the row stored under its key
Put(table, id, row) ==
  [k \in (DOMAIN table) \cup {id} |-> IF k = id THEN row ELSE table[k]]

\* instance.destroy
Remove(table, id) ==
  [k \in (DOMAIN table) \ {id} |-> table[k]]

\* Cascade with the activities of the lead left behind
Cascade_KeepAll(acts, leadId) == acts

\* leads.id is referenced by activities.leadId with ON DELETE CASCADE
Cascade(acts, leadId) ==
  [k \in {a \in DOMAIN acts : acts[a].leadId # leadId} |-> acts[k]]

RECURSIVE SortDesc(_)
\* ORDER BY createdAt DESC; rows are inserted in key order
SortDesc(ids) ==
  IF ids = {} THEN <<>>
  ELSE LET m == CHOOSE x \in ids : \A y \in ids : y <= x
       IN <<m>> \o SortDesc(ids \ {m})

\* io.emit: the event goes to the sockets connected at this moment
Deliver(event) ==
  [s \in SocketIds |->
     IF sockets[s].connected
     THEN [sockets[s] EXCEPT !.received = Append(@, event)]
     ELSE sockets[s]]

\* the orders in which a query can return the keys when nothing orders them
Orders(ids) ==
  {o \in [1..Cardinality(ids) -> ids] :
     \A i, j \in 1..Cardinality(ids) : o[i] = o[j] => i = j}

Min(a, b) == IF a <= b THEN a ELSE b

Max(a, b) == IF a >= b THEN a ELSE b

CeilDiv(a, b) == (a + b - 1) \div b

(* --------------------------- number parsing --------------------------- *)

IsDigit(c) == c \in {"0", "1", "2", "3", "4", "5", "6", "7", "8", "9"}

DigitVal(c) ==
  CASE c = "0" -> 0 [] c = "1" -> 1 [] c = "2" -> 2 [] c = "3" -> 3
    [] c = "4" -> 4 [] c = "5" -> 5 [] c = "6" -> 6 [] c = "7" -> 7
    [] c = "8" -> 8 [] c = "9" -> 9

\* NaN: equal to no key
NaN == -1

RECURSIVE ParseDigits(_, _)
ParseDigits(s, acc) ==
  IF s = <<>> \/ ~IsDigit(Head(s)) THEN acc
  ELSE ParseDigits(Tail(s), acc * 10 + DigitVal(Head(s)))

\* parseInt of a query-string value: the leading digits, NaN without any
ParseInt(s) ==
  IF s = <<>> \/ ~IsDigit(Head(s)) THEN NaN ELSE ParseDigits(s, 0)

(* ------------------------------ authenticate -------------------------- *)

\* a bearer credential: whether the token verifies and the user it then
\* names; a missing token and one that does not verify name nobody
Credentials ==
  {[verifies |-> FALSE, id |-> NULL]}
    \cup {[verifies |-> TRUE, id |-> u] : u \in UserIds \cup {6}}

\* authenticate without the test of the active flag
authenticate_Deactivated(cred) == cred.verifies /\ cred.id \in UserIds

\* the authenticate middleware: passes a credential that verifies and names
\* a stored user who is active
authenticate(cred) ==
  cred.verifies /\ cred.id \in UserIds /\ IsActive(cred.id)

\* the answer of authenticate to any other credential
Unauthenticated(cred, op, id, body) ==
  /\ resp' = Answer(op, cred.id, id, body, 401)
  /\ UNCHANGED <<leads, activities, nextLeadId, nextActivityId,
                 isEmailConfigured, pending, sockets>>

\* router.use(authenticate) ahead of the routes of a router
Route(cred, op, id, body, Handler) ==
  IF authenticate(cred) THEN Handler ELSE Unauthenticated(cred, op, id, body)

(* ------------------------------ socket/socket.js ---------------------- *)

\* the handshake of a connection: whether it carries a token, and the token
Handshakes ==
  {[token |-> FALSE, cred |-> [verifies |-> FALSE, id |-> NULL]]}
    \cup {[token |-> TRUE, cred |-> c] : c \in Credentials}

\* SocketError without the test of the active flag
SocketError_Deactivated(hs) ==
  IF ~hs.token THEN "Authentication error: No token provided"
  ELSE IF ~hs.cred.verifies THEN "Authentication error: Invalid token"
  ELSE IF hs.cred.id \notin UserIds
  THEN "Authentication error: Invalid token"
  ELSE ""

\* io.use: the error passed to next(), "" when the socket is let through;
\* jwt.verify throws on a token that does not verify, findByPk gives null for
\* a user that is not stored
SocketError(hs) ==
  IF ~hs.token THEN "Authentication error: No token provided"
  ELSE IF ~hs.cred.verifies THEN "Authentication error: Invalid token"
  ELSE IF hs.cred.id \notin UserIds \/ ~IsActive(hs.cred.id)
  THEN "Authentication error: Invalid token"
  ELSE ""

\* a client connects: the middleware, then the connection handler, which
\* joins the room of the user and the room of the role
Connect(s, hs) ==
  /\ ~sockets[s].connected
  /\ sockets' = [sockets EXCEPT ![s] =
       IF SocketError(hs) # ""
       THEN [NoSocket EXCEPT !.error = SocketError(hs)]
       ELSE [NoSocket EXCEPT
               !.connected = TRUE,
               !.userId = hs.cred.id,
               !.rooms = {<<"user", hs.cred.id>>, <<"role", Role(hs.cred.id)>>}]]
  /\ UNCHANGED <<leads, activities, nextLeadId, nextActivityId, resp,
                 isEmailConfigured, pending>>

\* socket.on('lead:subscribe'): join lead:<leadId>
LeadSubscribe(s, leadId) ==
  /\ sockets[s].connected
  /\ sockets' = [sockets EXCEPT ![s].rooms = @ \cup {<<"lead", leadId>>},
                                ![s].last = Put(@, leadId, "lead:subscribe")]
  /\ UNCHANGED <<leads, activities, nextLeadId, nextActivityId, resp,
                 isEmailConfigured, pending>>

\* LeadUnsubscribe that leaves every lead room
LeadUnsubscribe_All(s, leadId) ==
  /\ sockets[s].connected
  /\ sockets' = [sockets EXCEPT
                   ![s].rooms = {r \in @ : r[1] # "lead"},
                   ![s].last = Put(@, leadId, "lead:unsubscribe")]
  /\ UNCHANGED <<leads, activities, nextLeadId, nextActivityId, resp,
                 isEmailConfigured, pending>>

\* socket.on('lead:unsubscribe'): leave lead:<leadId>
LeadUnsubscribe(s, leadId) ==
  /\ sockets[s].connected
  /\ sockets' = [sockets EXCEPT ![s].rooms = @ \ {<<"lead", leadId>>},
                                ![s].last = Put(@, leadId, "lead:unsubscribe")]
  /\ UNCHANGED <<leads, activities, nextLeadId, nextActivityId, resp,
                 isEmailConfigured, pending>>

\* the connection closes: the socket leaves every room, and the server keeps
\* nothing for it (no connection state recovery is configured)
Disconnect(s) ==
  /\ sockets[s].connected
  /\ sockets' = [sockets EXCEPT ![s] = NoSocket]
  /\ UNCHANGED <<leads, activities, nextLeadId, nextActivityId, resp,
                 isEmailConfigured, pending>>

(* ------------------------------ GET /api/leads ------------------------ *)

\* ListVisible with the role misspelt: the condition is never pushed
ListVisible_RoleMisspelt(user, lead) ==
  Role(user) = "SalesExecutive" =>
    (lead.assignedToId = user \/ lead.createdById = user)

\* the role-based condition pushed for a Sales Executive
ListVisible(user, lead) ==
  Role(user) = "Sales Executive" =>
    (lead.assignedToId = user \/ lead.createdById = user)

\* the status condition, pushed when the parameter is non-empty
ListStatus(query, lead) ==
  (Has(query, "status") /\ query.status # "") => lead.status = query.status

\* the assignedToId condition, pushed when the parameter is non-empty
ListAssigned(query, lead) ==
  (Has(query, "assignedToId") /\ query.assignedToId # <<>>) =>
    (lead.assignedToId # NULL /\ lead.assignedToId = ParseInt(query.assignedToId))

\* the search condition, pushed when the parameter is non-empty
ListSearch(query, lead) ==
  (Has(query, "search") /\ query.search # <<>>) =>
    \/ ILike(lead.name, query.search)
    \/ ILike(lead.email, query.search)
    \/ ILike(lead.company, query.search)

\* the conditions combined with AND
ListWhere(user, query, lead) ==
  /\ ListVisible(user, lead)
  /\ ListStatus(query, lead)
  /\ ListAssigned(query, lead)
  /\ ListSearch(query, lead)

ListPage(query) == ParseInt(Get(query, "page", <<"1">>))

ListLimit(query) == ParseInt(Get(query, "limit", <<"1", "0">>))

SortBy(query) == Get(query, "sortBy", "createdAt")

SortOrder(query) == Get(query, "sortOrder", "DESC")

\* the value that ORDER BY compares; createdAt grows with the key, since rows
\* are inserted in key order
SortKey(query, lead) ==
  IF SortBy(query) = "estimatedValue" THEN lead.estimatedValue ELSE lead.id

\* order: [[sortBy, sortOrder]] over the matching keys; rows with equal sort
\* keys come in an order the database chooses, anew for each query
ListOrders(user, query) ==
  LET matched == {l \in LeadIds : ListWhere(user, query, leads[l])}
  IN {o \in Orders(matched) :
        \A i, j \in DOMAIN o :
          i < j => IF SortOrder(query) = "ASC"
                   THEN SortKey(query, leads[o[i]]) <= SortKey(query, leads[o[j]])
                   ELSE SortKey(query, leads[o[i]]) >= SortKey(query, leads[o[j]])}

\* ListRows with the offset of the following page
ListRows_NextPage(ordered, query) ==
  LET offset  == ListPage(query) * ListLimit(query)
      last    == Min(Len(ordered), offset + ListLimit(query))
  IN [k \in 1..Max(0, last - offset) |-> leads[ordered[offset + k]]]

\* findAndCountAll: the ordered keys cut to the page window
ListRows(ordered, query) ==
  LET offset  == (ListPage(query) - 1) * ListLimit(query)
      last    == Min(Len(ordered), offset + ListLimit(query))
  IN [k \in 1..Max(0, last - offset) |-> leads[ordered[offset + k]]]

ListCount(user, query) ==
  Cardinality({l \in LeadIds : ListWhere(user, query, leads[l])})

LeadList(user, query) ==
  /\ \E ordered \in ListOrders(user, query) :
       resp' = [Blank("leadList", user, NULL, query) EXCEPT
                  !.code = 200,
                  !.rows = ListRows(ordered, query),
                  !.total = ListCount(user, query),
                  !.pages = CeilDiv(ListCount(user, query), ListLimit(query))]
  /\ UNCHANGED <<leads, activities, nextLeadId, nextActivityId,
                    isEmailConfigured, pending, sockets>>

(* ---------------------------- GET /api/leads/:id ---------------------- *)

GetDenied(user, lead) ==
  /\ Role(user) = "Sales Executive"
  /\ lead.assignedToId # user
  /\ lead.createdById # user

LeadGet(user, id) ==
  /\ resp' = IF id \notin LeadIds THEN Answer("leadGet", user, id, NoBody, 404)
             ELSE IF GetDenied(user, leads[id])
             THEN Answer("leadGet", user, id, NoBody, 403)
             ELSE [Answer("leadGet", user, id, NoBody, 200) EXCEPT
                     !.rows = <<leads[id]>>]
  /\ UNCHANGED <<leads, activities, nextLeadId, nextActivityId,
                    isEmailConfigured, pending, sockets>>

(* ------------------------------ POST /api/leads ----------------------- *)

\* the validation chain of POST /api/leads
CreateValid(body) ==
  /\ Has(body, "name") /\ Trim(body.name) # <<>>
  /\ Has(body, "email") /\ IsEmail(body.email)
  /\ Has(body, "status") => body.status \in Statuses
  /\ Has(body, "estimatedValue") => body.estimatedValue >= 0

\* leadData: the body, then createdById and assignedToId over it; name as
\* left by the trim() sanitizer; the column defaults for what is absent
LeadData(user, id, body) ==
  [id             |-> id,
   name           |-> Trim(body.name),
   email          |-> body.email,
   company        |-> Get(body, "company", NULLTEXT),
   status         |-> Get(body, "status", "New"),
   estimatedValue |-> Get(body, "estimatedValue", 0),
   createdById    |-> user,
   assignedToId   |-> IF Get(body, "assignedToId", NULL) # NULL
                      THEN body.assignedToId ELSE user]

\* LeadCreatedActivity with the title of the reassignment note
LeadCreatedActivity_WrongTitle(user, id, leadId) ==
  [id |-> id, type |-> "Note", title |-> "Lead Reassigned", leadId |-> leadId,
   userId |-> user, metadata |-> {}]

\* the audit activity of a lead creation
LeadCreatedActivity(user, id, leadId) ==
  [id |-> id, type |-> "Note", title |-> "Lead Created", leadId |-> leadId,
   userId |-> user, metadata |-> {}]

\* the notification of a creation: to an assignee other than the creator
CreateMails(user, lead) ==
  IF lead.assignedToId # NULL /\ lead.assignedToId # user
  THEN <<[to |-> lead.assignedToId, template |-> "leadAssigned"]>>
  ELSE <<>>

LeadCreate(user, body) ==
  LET lead == LeadData(user, nextLeadId, body) IN
  IF ~CreateValid(body)
  THEN /\ resp' = Answer("leadCreate", user, NULL, body, 400)
       /\ UNCHANGED <<leads, activities, nextLeadId, nextActivityId,
                    isEmailConfigured, pending, sockets>>
  ELSE IF ~LeadRowValid(lead)
  THEN /\ resp' = Answer("leadCreate", user, NULL, body, 500)
       /\ UNCHANGED <<leads, activities, nextLeadId, nextActivityId,
                    isEmailConfigured, pending, sockets>>
  ELSE /\ nextLeadId <= MaxLeads
       /\ nextActivityId <= MaxActivities
       /\ leads' = Put(leads, nextLeadId, lead)
       /\ nextLeadId' = nextLeadId + 1
       /\ activities' = Put(activities, nextActivityId,
                            LeadCreatedActivity(user, nextActivityId, nextLeadId))
       /\ nextActivityId' = nextActivityId + 1
       /\ resp' = [Answer("leadCreate", user, nextLeadId, body, 201) EXCEPT
                     !.rows = <<lead>>,
                     !.mails = CreateMails(user, lead),
                     !.events = <<[type |-> "lead:created", id |-> nextLeadId]>>]
       /\ UNCHANGED <<isEmailConfigured, pending>>
       /\ sockets' = Deliver(resp'.events[1])

(* ------------------------------ PUT /api/leads/:id -------------------- *)

\* the validation chain of PUT /api/leads/:id
\* UpdateValid without the minimum of estimatedValue
UpdateValid_NoMinimum(body) ==
  /\ Has(body, "email") => IsEmail(body.email)
  /\ Has(body, "status") => body.status \in Statuses

\* the validation chain of PUT /api/leads/:id
UpdateValid(body) ==
  /\ Has(body, "email") => IsEmail(body.email)
  /\ Has(body, "status") => body.status \in Statuses
  /\ Has(body, "estimatedValue") => body.estimatedValue >= 0

\* UpdateDenied without the creator test
UpdateDenied_AssigneeOnly(user, lead) ==
  /\ Role(user) = "Sales Executive"
  /\ lead.assignedToId # user

UpdateDenied(user, lead) ==
  /\ Role(user) = "Sales Executive"
  /\ lead.assignedToId # user
  /\ lead.createdById # user

\* LeadUpdated with a null assignedToId taken as no assignedToId
LeadUpdated_NullIgnored(lead, body) ==
  [id             |-> lead.id,
   name           |-> Get(body, "name", lead.name),
   email          |-> Get(body, "email", lead.email),
   company        |-> Get(body, "company", lead.company),
   status         |-> Get(body, "status", lead.status),
   estimatedValue |-> Get(body, "estimatedValue", lead.estimatedValue),
   createdById    |-> Get(body, "createdById", lead.createdById),
   assignedToId   |-> IF Get(body, "assignedToId", NULL) # NULL
                      THEN body.assignedToId ELSE lead.assignedToId]

\* lead.update(req.body): every attribute of the model that the body has
LeadUpdated(lead, body) ==
  [id             |-> lead.id,
   name           |-> Get(body, "name", lead.name),
   email          |-> Get(body, "email", lead.email),
   company        |-> Get(body, "company", lead.company),
   status         |-> Get(body, "status", lead.status),
   estimatedValue |-> Get(body, "estimatedValue", lead.estimatedValue),
   createdById    |-> Get(body, "createdById", lead.createdById),
   assignedToId   |-> Get(body, "assignedToId", lead.assignedToId)]

\* StatusChanged without the comparison with the old status
StatusChanged_NoCompare(body, oldStatus) ==
  Has(body, "status") /\ body.status # ""

\* req.body.status && req.body.status !== oldStatus
StatusChanged(body, oldStatus) ==
  Has(body, "status") /\ body.status # "" /\ body.status # oldStatus

\* req.body.assignedToId && req.body.assignedToId !== oldAssignedToId
AssignmentChanged(body, oldAssignedToId) ==
  /\ Has(body, "assignedToId")
  /\ body.assignedToId # NULL
  /\ body.assignedToId # oldAssignedToId

StatusChangeActivity(user, id, leadId, oldStatus, newStatus) ==
  [id |-> id, type |-> "Status Change", title |-> "Status Changed",
   leadId |-> leadId, userId |-> user,
   metadata |-> {<<"oldStatus", oldStatus>>, <<"newStatus", newStatus>>}]

ReassignedActivity(user, id, leadId) ==
  [id |-> id, type |-> "Note", title |-> "Lead Reassigned", leadId |-> leadId,
   userId |-> user, metadata |-> {}]

\* the audit activities of an update, in the order they are created
UpdateAudit(user, lead, body, oldStatus, oldAssignedToId, firstId) ==
  LET st == IF StatusChanged(body, oldStatus)
            THEN <<StatusChangeActivity(user, firstId, lead.id, oldStatus, body.status)>>
            ELSE <<>>
  IN IF AssignmentChanged(body, oldAssignedToId)
     THEN st \o <<ReassignedActivity(user, firstId + Len(st), lead.id)>>
     ELSE st

\* the notifications of an update, each to the assignee after the update
UpdateMails(lead, body, oldStatus, oldAssignedToId) ==
  (IF StatusChanged(body, oldStatus) /\ lead.assignedToId # NULL
   THEN <<[to |-> lead.assignedToId, template |-> "leadStatusChanged"]>>
   ELSE <<>>)
  \o
  (IF AssignmentChanged(body, oldAssignedToId) /\ lead.assignedToId # NULL
   THEN <<[to |-> lead.assignedToId, template |-> "leadAssigned"]>>
   ELSE <<>>)

RECURSIVE PutAll(_, _)
PutAll(table, rows) ==
  IF rows = <<>> THEN table
  ELSE PutAll(Put(table, Head(rows).id, Head(rows)), Tail(rows))

LeadUpdate(user, id, body) ==
  IF ~UpdateValid(body)
  THEN /\ resp' = Answer("leadUpdate", user, id, body, 400)
       /\ UNCHANGED <<leads, activities, nextLeadId, nextActivityId,
                    isEmailConfigured, pending, sockets>>
  ELSE IF id \notin LeadIds
  THEN /\ resp' = Answer("leadUpdate", user, id, body, 404)
       /\ UNCHANGED <<leads, activities, nextLeadId, nextActivityId,
                    isEmailConfigured, pending, sockets>>
  ELSE IF UpdateDenied(user, leads[id])
  THEN /\ resp' = [Answer("leadUpdate", user, id, body, 403) EXCEPT
                     !.old = leads[id]]
       /\ UNCHANGED <<leads, activities, nextLeadId, nextActivityId,
                    isEmailConfigured, pending, sockets>>
  ELSE LET old          == leads[id]
           oldStatus    == old.status
           oldAssignedToId == old.assignedToId
           lead         == LeadUpdated(old, body)
           audit        == UpdateAudit(user, lead, body, oldStatus,
                                       oldAssignedToId, nextActivityId)
       IN IF ~LeadRowValid(lead)
          THEN /\ resp' = [Answer("leadUpdate", user, id, body, 500) EXCEPT
                             !.old = old]
               /\ UNCHANGED <<leads, activities, nextLeadId, nextActivityId,
                    isEmailConfigured, pending, sockets>>
          ELSE /\ nextActivityId + Len(audit) - 1 <= MaxActivities
               /\ leads' = Put(leads, id, lead)
               /\ activities' = PutAll(activities, audit)
               /\ nextActivityId' = nextActivityId + Len(audit)
               /\ resp' = [Answer("leadUpdate", user, id, body, 200) EXCEPT
                             !.old = old,
                             !.rows = <<lead>>,
                             !.mails = UpdateMails(lead, body, oldStatus,
                                                   oldAssignedToId),
                             !.events = <<[type |-> "lead:updated", id |-> id]>>]
               /\ UNCHANGED <<nextLeadId, isEmailConfigured, pending>>
               /\ sockets' = Deliver(resp'.events[1])

(* ---------------------------- DELETE /api/leads/:id ------------------- *)

\* DeleteRoles with every role let through
DeleteRoles_Everyone == {"Admin", "Manager", "Sales Executive"}

\* authorize('Admin', 'Manager')
DeleteRoles == {"Admin", "Manager"}

\* the authorize middleware: passes a user whose role is among the given
authorize(roles, user) == Role(user) \in roles

LeadDelete(user, id) ==
  IF ~authorize(DeleteRoles, user)
  THEN /\ resp' = Answer("leadDelete", user, id, NoBody, 403)
       /\ UNCHANGED <<leads, activities, nextLeadId, nextActivityId,
                    isEmailConfigured, pending, sockets>>
  ELSE IF id \notin LeadIds
  THEN /\ resp' = Answer("leadDelete", user, id, NoBody, 404)
       /\ UNCHANGED <<leads, activities, nextLeadId, nextActivityId,
                    isEmailConfigured, pending, sockets>>
  ELSE /\ leads' = Remove(leads, id)
       /\ activities' = Cascade(activities, id)
       /\ resp' = [Answer("leadDelete", user, id, NoBody, 200) EXCEPT
                     !.old = leads[id],
                     !.events = <<[type |-> "lead:deleted", id |-> id]>>]
       /\ UNCHANGED <<nextLeadId, nextActivityId, isEmailConfigured, pending>>
       /\ sockets' = Deliver(resp'.events[1])

(* ---------------------------- POST /api/activities -------------------- *)

\* trim() on a title: of the titles requests carry, only the blank one changes
TrimTitle(t) == IF t = " " THEN "" ELSE t

\* the validation chain of POST /api/activities
ActivityCreateValid(body) ==
  /\ Has(body, "type") /\ body.type \in ActivityTypes
  /\ Has(body, "title") /\ TrimTitle(body.title) # ""
  /\ Has(body, "leadId") /\ body.leadId \in Int

ActivityCreateDenied(user, lead) ==
  /\ Role(user) = "Sales Executive"
  /\ lead.assignedToId # user
  /\ lead.createdById # user

\* ActivityData with the author taken from the body when it has one
ActivityData_BodyUser(user, id, body) ==
  [id |-> id, type |-> body.type, title |-> TrimTitle(body.title),
   leadId |-> body.leadId, userId |-> Get(body, "userId", user),
   metadata |-> Get(body, "metadata", {})]

\* the row given to Activity.create: userId is the acting user
ActivityData(user, id, body) ==
  [id |-> id, type |-> body.type, title |-> TrimTitle(body.title),
   leadId |-> body.leadId, userId |-> user,
   metadata |-> Get(body, "metadata", {})]

\* the notification of a new activity: to an assignee other than the author
ActivityMails(user, lead) ==
  IF lead.assignedToId # NULL /\ lead.assignedToId # user
  THEN <<[to |-> lead.assignedToId, template |-> "newActivity"]>>
  ELSE <<>>

ActivityCreate(user, body) ==
  IF ~ActivityCreateValid(body)
  THEN /\ resp' = Answer("activityCreate", user, NULL, body, 400)
       /\ UNCHANGED <<leads, activities, nextLeadId, nextActivityId,
                    isEmailConfigured, pending, sockets>>
  ELSE IF body.leadId \notin LeadIds
  THEN /\ resp' = Answer("activityCreate", user, NULL, body, 404)
       /\ UNCHANGED <<leads, activities, nextLeadId, nextActivityId,
                    isEmailConfigured, pending, sockets>>
  ELSE IF ActivityCreateDenied(user, leads[body.leadId])
  THEN /\ resp' = Answer("activityCreate", user, NULL, body, 403)
       /\ UNCHANGED <<leads, activities, nextLeadId, nextActivityId,
                    isEmailConfigured, pending, sockets>>
  ELSE LET activity == ActivityData(user, nextActivityId, body) IN
       /\ nextActivityId <= MaxActivities
       /\ activities' = Put(activities, nextActivityId, activity)
       /\ nextActivityId' = nextActivityId + 1
       /\ resp' = [Answer("activityCreate", user, nextActivityId, body, 201) EXCEPT
                     !.rows = <<activity>>,
                     !.mails = ActivityMails(user, leads[body.leadId]),
                     !.events = <<[type |-> "activity:created",
                                   id |-> nextActivityId]>>]
       /\ UNCHANGED <<leads, nextLeadId, isEmailConfigured, pending>>
       /\ sockets' = Deliver(resp'.events[1])

(* --------------------------- PUT /api/activities/:id ------------------ *)

\* the validation chain of PUT /api/activities/:id
ActivityUpdateValid(body) ==
  Has(body, "title") => TrimTitle(body.title) # ""

\* ActivityUpdateDenied with the Manager let through as well
ActivityUpdateDenied_ManagerToo(user, activity) ==
  activity.userId # user /\ Role(user) \notin {"Admin", "Manager"}

\* only the author, or an Admin
ActivityUpdateDenied(user, activity) ==
  activity.userId # user /\ Role(user) # "Admin"

\* activity.update(req.body): every attribute of the model that the body has
ActivityUpdated(activity, body) ==
  [id       |-> activity.id,
   type     |-> Get(body, "type", activity.type),
   title    |-> IF Has(body, "title") THEN TrimTitle(body.title) ELSE activity.title,
   leadId   |-> Get(body, "leadId", activity.leadId),
   userId   |-> Get(body, "userId", activity.userId),
   metadata |-> Get(body, "metadata", activity.metadata)]

\* ActivityUpdate with the activity fetched before the body is validated
ActivityUpdate_FetchFirst(user, id, body) ==
  IF id \notin ActivityIds
  THEN /\ resp' = Answer("activityUpdate", user, id, body, 404)
       /\ UNCHANGED <<leads, activities, nextLeadId, nextActivityId,
                    isEmailConfigured, pending, sockets>>
  ELSE IF ~ActivityUpdateValid(body)
  THEN /\ resp' = Answer("activityUpdate", user, id, body, 400)
       /\ UNCHANGED <<leads, activities, nextLeadId, nextActivityId,
                    isEmailConfigured, pending, sockets>>
  ELSE IF ActivityUpdateDenied(user, activities[id])
  THEN /\ resp' = [Answer("activityUpdate", user, id, body, 403) EXCEPT
                     !.old = activities[id]]
       /\ UNCHANGED <<leads, activities, nextLeadId, nextActivityId,
                    isEmailConfigured, pending, sockets>>
  ELSE LET activity == ActivityUpdated(activities[id], body) IN
       IF ~ActivityRowValid(activity)
       THEN /\ resp' = [Answer("activityUpdate", user, id, body, 500) EXCEPT
                          !.old = activities[id]]
            /\ UNCHANGED <<leads, activities, nextLeadId, nextActivityId,
                    isEmailConfigured, pending, sockets>>
       ELSE /\ activities' = Put(activities, id, activity)
            /\ resp' = [Answer("activityUpdate", user, id, body, 200) EXCEPT
                          !.old = activities[id],
                          !.rows = <<activity>>,
                          !.events = <<[type |-> "activity:updated", id |-> id]>>]
            /\ UNCHANGED <<leads, nextLeadId, nextActivityId,
                            isEmailConfigured, pending>>
            /\ sockets' = Deliver(resp'.events[1])

ActivityUpdate(user, id, body) ==
  IF ~ActivityUpdateValid(body)
  THEN /\ resp' = Answer("activityUpdate", user, id, body, 400)
       /\ UNCHANGED <<leads, activities, nextLeadId, nextActivityId,
                    isEmailConfigured, pending, sockets>>
  ELSE IF id \notin ActivityIds
  THEN /\ resp' = Answer("activityUpdate", user, id, body, 404)
       /\ UNCHANGED <<leads, activities, nextLeadId, nextActivityId,
                    isEmailConfigured, pending, sockets>>
  ELSE IF ActivityUpdateDenied(user, activities[id])
  THEN /\ resp' = [Answer("activityUpdate", user, id, body, 403) EXCEPT
                     !.old = activities[id]]
       /\ UNCHANGED <<leads, activities, nextLeadId, nextActivityId,
                    isEmailConfigured, pending, sockets>>
  ELSE LET activity == ActivityUpdated(activities[id], body) IN
       IF ~ActivityRowValid(activity)
       THEN /\ resp' = [Answer("activityUpdate", user, id, body, 500) EXCEPT
                          !.old = activities[id]]
            /\ UNCHANGED <<leads, activities, nextLeadId, nextActivityId,
                    isEmailConfigured, pending, sockets>>
       ELSE /\ activities' = Put(activities, id, activity)
            /\ resp' = [Answer("activityUpdate", user, id, body, 200) EXCEPT
                          !.old = activities[id],
                          !.rows = <<activity>>,
                          !.events = <<[type |-> "activity:updated", id |-> id]>>]
            /\ UNCHANGED <<leads, nextLeadId, nextActivityId,
                            isEmailConfigured, pending>>
            /\ sockets' = Deliver(resp'.events[1])

(* ------------------------- DELETE /api/activities/:id ----------------- *)

\* only the author, or an Admin
ActivityDeleteDenied(user, activity) ==
  activity.userId # user /\ Role(user) # "Admin"

\* ActivityDelete with the row destroyed before the author is checked
ActivityDelete_DestroyFirst(user, id) ==
  IF id \notin ActivityIds
  THEN /\ resp' = Answer("activityDelete", user, id, NoBody, 404)
       /\ UNCHANGED <<leads, activities, nextLeadId, nextActivityId,
                    isEmailConfigured, pending, sockets>>
  ELSE IF ActivityDeleteDenied(user, activities[id])
  THEN /\ activities' = Remove(activities, id)
       /\ resp' = [Answer("activityDelete", user, id, NoBody, 403) EXCEPT
                     !.old = activities[id]]
       /\ UNCHANGED <<leads, nextLeadId, nextActivityId,
                       isEmailConfigured, pending, sockets>>
  ELSE /\ activities' = Remove(activities, id)
       /\ resp' = [Answer("activityDelete", user, id, NoBody, 200) EXCEPT
                     !.old = activities[id],
                     !.events = <<[type |-> "activity:deleted", id |-> id]>>]
       /\ UNCHANGED <<leads, nextLeadId, nextActivityId,
                       isEmailConfigured, pending>>
       /\ sockets' = Deliver(resp'.events[1])

ActivityDelete(user, id) ==
  IF id \notin ActivityIds
  THEN /\ resp' = Answer("activityDelete", user, id, NoBody, 404)
       /\ UNCHANGED <<leads, activities, nextLeadId, nextActivityId,
                    isEmailConfigured, pending, sockets>>
  ELSE IF ActivityDeleteDenied(user, activities[id])
  THEN /\ resp' = [Answer("activityDelete", user, id, NoBody, 403) EXCEPT
                     !.old = activities[id]]
       /\ UNCHANGED <<leads, activities, nextLeadId, nextActivityId,
                    isEmailConfigured, pending, sockets>>
  ELSE /\ activities' = Remove(activities, id)
       /\ resp' = [Answer("activityDelete", user, id, NoBody, 200) EXCEPT
                     !.old = activities[id],
                     !.events = <<[type |-> "activity:deleted", id |-> id]>>]
       /\ UNCHANGED <<leads, nextLeadId, nextActivityId,
                       isEmailConfigured, pending>>
       /\ sockets' = Deliver(resp'.events[1])

(* ---------------------------- GET /api/activities --------------------- *)

\* include Lead as 'lead' with attributes id, name, email: the joined lead
LeadRef(l) ==
  IF l \in LeadIds
  THEN [id |-> l, name |-> leads[l].name, email |-> leads[l].email]
  ELSE NoLead

\* an activity as the two GET routes serialise it, with its lead and the key
\* of its user
ActivityView(activity) ==
  [id |-> activity.id, type |-> activity.type, title |-> activity.title,
   leadId |-> activity.leadId, userId |-> activity.userId,
   metadata |-> activity.metadata,
   lead |-> LeadRef(activity.leadId), user |-> [id |-> activity.userId]]

\* where: leadId and type of the query string, when they are given; nothing
\* of the where depends on who asks
ActivityWhere(query, activity) ==
  /\ Has(query, "leadId") => activity.leadId = ParseInt(query.leadId)
  /\ Has(query, "type") => activity.type = query.type

ActivityListLimit(query) == ParseInt(Get(query, "limit", <<"5", "0">>))

\* findAndCountAll with order createdAt DESC, cut to the page window
ActivityListRows(query) ==
  LET ordered == SortDesc({a \in ActivityIds : ActivityWhere(query, activities[a])})
      offset  == (ListPage(query) - 1) * ActivityListLimit(query)
      last    == Min(Len(ordered), offset + ActivityListLimit(query))
  IN [k \in 1..Max(0, last - offset) |->
        ActivityView(activities[ordered[offset + k]])]

ActivityListCount(query) ==
  Cardinality({a \in ActivityIds : ActivityWhere(query, activities[a])})

ActivityList(user, query) ==
  /\ resp' = [Blank("activityList", user, NULL, query) EXCEPT
                !.code = 200,
                !.rows = ActivityListRows(query),
                !.total = ActivityListCount(query),
                !.pages = CeilDiv(ActivityListCount(query),
                                  ActivityListLimit(query))]
  /\ UNCHANGED <<leads, activities, nextLeadId, nextActivityId,
                    isEmailConfigured, pending, sockets>>

(* -------------------------- GET /api/activities/:id ------------------- *)

\* findByPk with the same include; 404 without a row, no test of the asker
ActivityGet(user, id) ==
  /\ resp' = IF id \notin ActivityIds
             THEN Answer("activityGet", user, id, NoBody, 404)
             ELSE [Answer("activityGet", user, id, NoBody, 200) EXCEPT
                     !.rows = <<ActivityView(activities[id])>>]
  /\ UNCHANGED <<leads, activities, nextLeadId, nextActivityId,
                    isEmailConfigured, pending, sockets>>

(* ------------------------------ sendEmail ----------------------------- *)

\* users.email: the address stored for user 2 has no "@"
Email(u) == IF u = 2 THEN <<"u", "2">> ELSE <<"u", "@", "x">>

\* to.includes('@')
Includes(s, c) == \E i \in 1..Len(s) : s[i] = c

\* SendEmailEarly with the address looked at before the configuration
SendEmailEarly_AddressFirst(to) ==
  IF to = NULLTEXT \/ ~Includes(to, "@") THEN "Invalid email address"
  ELSE "transport"

\* sendEmail up to its await: the error it returns at once, or "transport"
\* when it goes on to transporter.sendMail
SendEmailEarly(to) ==
  IF ~isEmailConfigured THEN "Email service not configured"
  ELSE IF to = NULLTEXT \/ ~Includes(to, "@") THEN "Invalid email address"
  ELSE "transport"

\* what sendEmail returns, with whether it has called the transport
MailResult(to, template, success, error, transport) ==
  [to |-> to, template |-> template, success |-> success, error |-> error,
   transport |-> transport]

(* ------------------------- a handler, await by await ------------------ *)

\* Program with the event of a lead delete published before the destroy
Program_EmitFirst(op) ==
  CASE op = "leadCreate" ->
         <<"create", "audit", "reload", "notify", "emit", "respond">>
    [] op = "leadUpdate" ->
         <<"update", "reload", "statusAudit", "statusNotify", "assignAudit",
           "assignNotify", "emit", "respond">>
    [] op = "leadDelete" -> <<"emit", "destroy", "respond">>
    [] op = "activityCreate" ->
         <<"create", "reload", "notify", "emit", "respond">>
    [] op = "activityUpdate" -> <<"update", "reload", "emit", "respond">>
    [] op = "activityDelete" -> <<"destroy", "emit", "respond">>
    [] op = "stats" ->
         <<"totalLeads", "leadsByStatus", "totalValue", "recentActivities",
           "wonLeads", "respond">>

\* the awaits of each handler after its checks, in program order, then the
\* io.emit and the response
Program(op) ==
  CASE op = "leadCreate" ->
         <<"create", "audit", "reload", "notify", "emit", "respond">>
    [] op = "leadUpdate" ->
         <<"update", "reload", "statusAudit", "statusNotify", "assignAudit",
           "assignNotify", "emit", "respond">>
    [] op = "leadDelete" -> <<"destroy", "emit", "respond">>
    [] op = "activityCreate" ->
         <<"create", "reload", "notify", "emit", "respond">>
    [] op = "activityUpdate" -> <<"update", "reload", "emit", "respond">>
    [] op = "activityDelete" -> <<"destroy", "emit", "respond">>
    [] op = "stats" ->
         <<"totalLeads", "leadsByStatus", "totalValue", "recentActivities",
           "wonLeads", "respond">>

LeadOps == {"leadCreate", "leadUpdate", "leadDelete"}

\* the lead whose assignee is notified: the lead the handler holds, which for
\* an activity is the lead as fetched
NotifyLead(p) == IF p.op = "activityCreate" THEN p.old ELSE p.inst

\* the condition under which the handler reaches the label
Runs(p, label) ==
  CASE label = "statusAudit" -> StatusChanged(p.body, p.old.status)
    [] label = "statusNotify" ->
         StatusChanged(p.body, p.old.status) /\ p.inst.assignedToId # NULL
    [] label = "assignAudit" -> AssignmentChanged(p.body, p.old.assignedToId)
    [] label = "assignNotify" ->
         /\ AssignmentChanged(p.body, p.old.assignedToId)
         /\ p.inst.assignedToId # NULL
    [] label = "notify" ->
         /\ NotifyLead(p).assignedToId # NULL
         /\ NotifyLead(p).assignedToId # p.user
    [] OTHER -> TRUE

RECURSIVE Advance(_, _)
\* the labels left, without the leading ones whose condition is false
Advance(p, todo) ==
  IF todo # <<>> /\ ~Runs(p, Head(todo)) THEN Advance(p, Tail(todo)) ELSE todo

\* the handler after the await at the head of its labels
Resume(p) == [p EXCEPT !.todo = Advance(p, Tail(p.todo))]

At(h, labels) == pending[h].todo # <<>> /\ Head(pending[h].todo) \in labels

\* the early answer of the handler's checks, 0 when they pass
Refusal(op, user, id, body) ==
  CASE op = "leadCreate" -> IF ~CreateValid(body) THEN 400 ELSE 0
    [] op = "leadUpdate" ->
         IF ~UpdateValid(body) THEN 400
         ELSE IF id \notin LeadIds THEN 404
         ELSE IF UpdateDenied(user, leads[id]) THEN 403 ELSE 0
    [] op = "leadDelete" ->
         IF ~authorize(DeleteRoles, user) THEN 403
         ELSE IF id \notin LeadIds THEN 404 ELSE 0
    [] op = "activityCreate" ->
         IF ~ActivityCreateValid(body) THEN 400
         ELSE IF body.leadId \notin LeadIds THEN 404
         ELSE IF ActivityCreateDenied(user, leads[body.leadId]) THEN 403 ELSE 0
    [] op = "activityUpdate" ->
         IF ~ActivityUpdateValid(body) THEN 400
         ELSE IF id \notin ActivityIds THEN 404
         ELSE IF ActivityUpdateDenied(user, activities[id]) THEN 403 ELSE 0
    [] op = "activityDelete" ->
         IF id \notin ActivityIds THEN 404
         ELSE IF ActivityDeleteDenied(user, activities[id]) THEN 403 ELSE 0
    [] op = "stats" -> 0

\* the record findByPk gave the handler
Fetched(op, id, body) ==
  CASE op \in {"leadCreate", "stats"} -> NoLead
    [] op \in {"leadUpdate", "leadDelete"} -> leads[id]
    [] op = "activityCreate" -> leads[body.leadId]
    [] op \in {"activityUpdate", "activityDelete"} -> activities[id]

\* the lead and activity rows the request inserts at most
Inserts(op, body, old) ==
  CASE op = "leadCreate" -> <<1, 1>>
    [] op = "leadUpdate" ->
         <<0, (IF StatusChanged(body, old.status) THEN 1 ELSE 0)
              + (IF AssignmentChanged(body, old.assignedToId) THEN 1 ELSE 0)>>
    [] op = "activityCreate" -> <<0, 1>>
    [] OTHER -> <<0, 0>>

\* the request arrives: validation, findByPk and the permission test, with
\* the answer sent at once when one of them fails; otherwise the request is
\* in flight and has no answer yet
Begin(h, op, user, id, body) ==
  /\ pending[h].op = "none"
  /\ IF Refusal(op, user, id, body) # 0
     THEN /\ resp' = Answer(op, user, id, body, Refusal(op, user, id, body))
          /\ UNCHANGED pending
     ELSE LET old == Fetched(op, id, body) IN
          /\ \/ Inserts(op, body, old)[1] = 0
             \/ nextLeadId + Inserts(op, body, old)[1] - 1 <= MaxLeads
          /\ \/ Inserts(op, body, old)[2] = 0
             \/ nextActivityId + Inserts(op, body, old)[2] - 1 <= MaxActivities
          /\ pending' = [pending EXCEPT ![h] =
                           [NoRequest EXCEPT !.op = op, !.user = user,
                                             !.id = id, !.body = body,
                                             !.old = old, !.inst = old,
                                             !.todo = Program(op)]]
          /\ resp' = Blank("none", NULL, NULL, NoBody)
  /\ UNCHANGED <<leads, activities, nextLeadId, nextActivityId,
                 isEmailConfigured, sockets>>

\* an await rejects: the catch block answers 500 and the handler ends
Throw(h) ==
  LET p == pending[h] IN
  /\ resp' = [Answer(p.op, p.user, p.id, p.body, 500) EXCEPT
                !.old = p.old, !.mails = p.mails, !.events = p.events]
  /\ pending' = [pending EXCEPT ![h] = NoRequest]

\* the part of the body that set() finds changed against the instance: save()
\* writes these columns only
ChangedBody(inst, body) ==
  [k \in {c \in DOMAIN body : c \in DOMAIN inst /\ body[c] # inst[c]} |->
     body[k]]

\* Lead.create(leadData)
PersistLeadCreate(h) ==
  LET p    == pending[h]
      lead == LeadData(p.user, nextLeadId, p.body)
  IN /\ p.op = "leadCreate" /\ At(h, {"create"})
     /\ IF ~LeadRowValid(lead)
        THEN /\ Throw(h)
             /\ UNCHANGED <<leads, nextLeadId>>
        ELSE /\ nextLeadId <= MaxLeads
             /\ leads' = Put(leads, nextLeadId, lead)
             /\ nextLeadId' = nextLeadId + 1
             /\ pending' = [pending EXCEPT ![h] =
                              Resume([p EXCEPT !.id = nextLeadId,
                                               !.inst = lead,
                                               !.persisted = TRUE])]
             /\ UNCHANGED resp
     /\ UNCHANGED <<activities, nextActivityId, isEmailConfigured, sockets>>

\* lead.update(req.body): the changed columns validated, then written to the
\* row if it is still stored
PersistLeadUpdate(h) ==
  LET p    == pending[h]
      lead == LeadUpdated(p.inst, p.body)
  IN /\ p.op = "leadUpdate" /\ At(h, {"update"})
     /\ IF ~LeadRowValid(lead)
        THEN /\ Throw(h)
             /\ UNCHANGED leads
        ELSE /\ leads' = IF p.id \in LeadIds
                         THEN Put(leads, p.id,
                                  LeadUpdated(leads[p.id],
                                              ChangedBody(p.inst, p.body)))
                         ELSE leads
             /\ pending' = [pending EXCEPT ![h] =
                              Resume([p EXCEPT !.inst = lead,
                                               !.persisted = TRUE,
                                               !.before =
                                                  IF p.id \in LeadIds
                                                  THEN leads[p.id] ELSE NoLead])]
             /\ UNCHANGED resp
     /\ UNCHANGED <<activities, nextLeadId, nextActivityId, isEmailConfigured,
                    sockets>>

\* lead.destroy()
PersistLeadDestroy(h) ==
  LET p == pending[h]
  IN /\ p.op = "leadDelete" /\ At(h, {"destroy"})
     /\ leads' = Remove(leads, p.id)
     /\ activities' = Cascade(activities, p.id)
     /\ pending' = [pending EXCEPT ![h] = Resume([p EXCEPT !.persisted = TRUE])]
     /\ UNCHANGED <<nextLeadId, nextActivityId, resp, isEmailConfigured, sockets>>

\* Activity.create({...}): rejected when the lead is no longer stored
PersistActivityCreate(h) ==
  LET p        == pending[h]
      activity == ActivityData(p.user, nextActivityId, p.body)
  IN /\ p.op = "activityCreate" /\ At(h, {"create"})
     /\ IF ~ActivityRowValid(activity)
        THEN /\ Throw(h)
             /\ UNCHANGED <<activities, nextActivityId>>
        ELSE /\ nextActivityId <= MaxActivities
             /\ activities' = Put(activities, nextActivityId, activity)
             /\ nextActivityId' = nextActivityId + 1
             /\ pending' = [pending EXCEPT ![h] =
                              Resume([p EXCEPT !.id = nextActivityId,
                                               !.inst = activity,
                                               !.persisted = TRUE])]
             /\ UNCHANGED resp
     /\ UNCHANGED <<leads, nextLeadId, isEmailConfigured, sockets>>

\* activity.update(req.body): the type validated, then the changed columns
\* written to the row if it is still stored, which the database rejects when
\* the new row breaks a foreign key
PersistActivityUpdate(h) ==
  LET p        == pending[h]
      activity == ActivityUpdated(p.inst, p.body)
      row      == IF p.id \in ActivityIds
                  THEN ActivityUpdated(activities[p.id],
                                       ChangedBody(p.inst, p.body))
                  ELSE NoLead
  IN /\ p.op = "activityUpdate" /\ At(h, {"update"})
     /\ IF \/ activity.type \notin ActivityTypes
           \/ p.id \in ActivityIds /\ ~ActivityRowValid(row)
        THEN /\ Throw(h)
             /\ UNCHANGED activities
        ELSE /\ activities' = IF p.id \in ActivityIds
                              THEN Put(activities, p.id, row)
                              ELSE activities
             /\ pending' = [pending EXCEPT ![h] =
                              Resume([p EXCEPT !.inst = activity,
                                               !.persisted = TRUE])]
             /\ UNCHANGED resp
     /\ UNCHANGED <<leads, nextLeadId, nextActivityId, isEmailConfigured, sockets>>

\* activity.destroy()
PersistActivityDestroy(h) ==
  LET p == pending[h]
  IN /\ p.op = "activityDelete" /\ At(h, {"destroy"})
     /\ activities' = Remove(activities, p.id)
     /\ pending' = [pending EXCEPT ![h] = Resume([p EXCEPT !.persisted = TRUE])]
     /\ UNCHANGED <<leads, nextLeadId, nextActivityId, resp, isEmailConfigured, sockets>>

\* the write of the handler
Persist(h) ==
  \/ PersistLeadCreate(h)
  \/ PersistLeadUpdate(h)
  \/ PersistLeadDestroy(h)
  \/ PersistActivityCreate(h)
  \/ PersistActivityUpdate(h)
  \/ PersistActivityDestroy(h)

\* the row of the audit activity at the label
AuditRow(p, label, id) ==
  CASE label = "audit" -> LeadCreatedActivity(p.user, id, p.inst.id)
    [] label = "statusAudit" ->
         StatusChangeActivity(p.user, id, p.inst.id, p.old.status, p.body.status)
    [] label = "assignAudit" -> ReassignedActivity(p.user, id, p.inst.id)

\* Activity.create of an audit activity: rejected by the database when the
\* lead is no longer stored or when the database fails
Audit(h) ==
  LET p   == pending[h]
      row == AuditRow(p, Head(p.todo), nextActivityId)
  IN /\ p.op \in LeadOps /\ At(h, {"audit", "statusAudit", "assignAudit"})
     /\ \E fails \in BOOLEAN :
          IF fails \/ ~ActivityRowValid(row)
          THEN /\ Throw(h)
               /\ UNCHANGED <<activities, nextActivityId>>
          ELSE /\ nextActivityId <= MaxActivities
               /\ activities' = Put(activities, nextActivityId, row)
               /\ nextActivityId' = nextActivityId + 1
               /\ pending' = [pending EXCEPT ![h] = Resume(p)]
               /\ UNCHANGED resp
     /\ UNCHANGED <<leads, nextLeadId, isEmailConfigured, sockets>>

\* instance.reload(): rejects when the row is no longer stored
Reload(h) ==
  LET p     == pending[h]
      table == IF p.op \in LeadOps THEN leads ELSE activities
  IN /\ At(h, {"reload"})
     /\ IF p.id \notin DOMAIN table
        THEN Throw(h)
        ELSE /\ pending' = [pending EXCEPT ![h] =
                              Resume([p EXCEPT !.inst = table[p.id]])]
             /\ UNCHANGED resp
     /\ UNCHANGED <<leads, activities, nextLeadId, nextActivityId,
                    isEmailConfigured, sockets>>

\* the template of the notification at the label
Template(p, label) ==
  CASE label = "statusNotify" -> "leadStatusChanged"
    [] label = "assignNotify" -> "leadAssigned"
    [] label = "notify" ->
         IF p.op = "activityCreate" THEN "newActivity" ELSE "leadAssigned"

\* User.findByPk(assignedToId), which the database may fail, then sendEmail
\* up to its await: it returns a failure at once, or calls the transport and
\* waits for it
Notify(h) ==
  LET p     == pending[h]
      label == Head(p.todo)
      to    == NotifyLead(p).assignedToId
      early == SendEmailEarly(Email(to))
  IN /\ At(h, {"notify", "statusNotify", "assignNotify"})
     /\ \E fails \in BOOLEAN :
          IF fails
          THEN Throw(h)
          ELSE /\ pending' = [pending EXCEPT ![h] =
                   IF early = "transport"
                   THEN [p EXCEPT
                           !.mails = Append(@, MailResult(to, Template(p, label),
                                                          FALSE, "pending", TRUE)),
                           !.todo = <<"sending">> \o Tail(@)]
                   ELSE Resume([p EXCEPT
                           !.mails = Append(@, MailResult(to, Template(p, label),
                                                          FALSE, early, FALSE))])]
               /\ UNCHANGED resp
     /\ UNCHANGED <<leads, activities, nextLeadId, nextActivityId,
                    isEmailConfigured, sockets>>

\* transporter.sendMail settles: resolved, sendEmail returns success; rejected,
\* its catch returns the failure; the handler goes on either way
SendMailSettles(h, resolved) ==
  LET p == pending[h]
      n == Len(p.mails)
  IN /\ At(h, {"sending"})
     /\ pending' = [pending EXCEPT ![h] =
          Resume([p EXCEPT !.mails[n].success = resolved,
                           !.mails[n].error =
                              IF resolved THEN "" ELSE "ECONNECTION"])]
     /\ UNCHANGED <<leads, activities, nextLeadId, nextActivityId, resp,
                    isEmailConfigured, sockets>>

(* ------------------------ GET /api/dashboard/stats -------------------- *)

\* StatsWhere without the role: every lead counts for every user
StatsWhere_Everyone(user, lead) == TRUE

\* leadWhere: for a Sales Executive, assigned to or created by the user
StatsWhere(user, lead) ==
  Role(user) = "Sales Executive" =>
    (lead.assignedToId = user \/ lead.createdById = user)

StatsLeads(user) == {l \in LeadIds : StatsWhere(user, leads[l])}

RECURSIVE SumValue(_)
\* SUM(estimatedValue) over the leads of the keys
SumValue(ids) ==
  IF ids = {} THEN 0
  ELSE LET l == CHOOSE x \in ids : TRUE
       IN leads[l].estimatedValue + SumValue(ids \ {l})

\* GROUP BY status with COUNT(id), reduced to an object keyed by status
LeadsByStatus(ids) ==
  [s \in {leads[l].status : l \in ids} |->
     Cardinality({l \in ids : leads[l].status = s})]

\* RecentActivities without the where of a Sales Executive
RecentActivities_Unscoped(user) ==
  LET ordered == SortDesc(ActivityIds)
  IN [k \in 1..Min(10, Len(ordered)) |-> activities[ordered[k]]]

\* the activities of the dashboard: the user's own for a Sales Executive, the
\* newest first, ten at most
RecentActivities(user) ==
  LET ids == {a \in ActivityIds :
                Role(user) = "Sales Executive" => activities[a].userId = user}
      ordered == SortDesc(ids)
  IN [k \in 1..Min(10, Len(ordered)) |-> activities[ordered[k]]]

\* (wonLeads / totalLeads) * 100 through toFixed(2), in hundredths of a percent
ConversionRate(wonLeads, totalLeads) ==
  IF totalLeads > 0
  THEN (2 * wonLeads * 10000 + totalLeads) \div (2 * totalLeads)
  ELSE 0

\* the data of the answer
StatsData(s) ==
  [totalLeads |-> s.totalLeads,
   leadsByStatus |-> s.leadsByStatus,
   totalValue |-> s.totalValue,
   conversionRate |-> ConversionRate(s.wonLeads, s.totalLeads),
   recentActivities |-> s.recentActivities]

StatsLabels ==
  {"totalLeads", "leadsByStatus", "totalValue", "recentActivities", "wonLeads"}

\* one query of the handler, on the tables as they are when it runs
StatsRead(h) ==
  LET p     == pending[h]
      label == Head(p.todo)
      ids   == StatsLeads(p.user)
  IN /\ p.op = "stats" /\ At(h, StatsLabels)
     /\ pending' = [pending EXCEPT ![h] = Resume([p EXCEPT !.stats =
          CASE label = "totalLeads" -> [@ EXCEPT !.totalLeads = Cardinality(ids)]
            [] label = "leadsByStatus" ->
                 [@ EXCEPT !.leadsByStatus = LeadsByStatus(ids)]
            [] label = "totalValue" -> [@ EXCEPT !.totalValue = SumValue(ids)]
            [] label = "recentActivities" ->
                 [@ EXCEPT !.recentActivities = RecentActivities(p.user)]
            [] label = "wonLeads" ->
                 [@ EXCEPT !.wonLeads =
                    Cardinality({l \in ids : leads[l].status = "Won"})]])]
     /\ UNCHANGED <<leads, activities, nextLeadId, nextActivityId, resp,
                    isEmailConfigured, sockets>>

(* ---------------------- GET /api/dashboard/performance ---------------- *)

\* authorize('Admin', 'Manager')
PerformanceRoles == {"Admin", "Manager"}

\* where: { isActive: true, role: 'Sales Executive' }
PerformanceUsers ==
  {u \in UserIds : IsActive(u) /\ Role(u) = "Sales Executive"}

\* assignedLeads taken through the creator's key
AssignedLeads_Created(u) == {l \in LeadIds : leads[l].createdById = u}

\* the association assignedLeads of User: the leads with assignedToId the user
AssignedLeads(u) == {l \in LeadIds : leads[l].assignedToId = u}

\* the entry of a user (userName and userEmail are copied from the user row)
PerformanceEntry(u) ==
  LET ids == AssignedLeads(u)
      won == {l \in ids : leads[l].status = "Won"}
  IN [userId         |-> u,
      totalLeads     |-> Cardinality(ids),
      wonLeads       |-> Cardinality(won),
      totalValue     |-> SumValue(ids),
      conversionRate |-> ConversionRate(Cardinality(won), Cardinality(ids))]

\* one findAll with the leads joined in, then a map over its rows
Performance(user) ==
  IF ~authorize(PerformanceRoles, user)
  THEN /\ resp' = Answer("performance", user, NULL, NoBody, 403)
       /\ UNCHANGED <<leads, activities, nextLeadId, nextActivityId,
                    isEmailConfigured, pending, sockets>>
  ELSE /\ \E users \in Orders(PerformanceUsers) :
            resp' = [Answer("performance", user, NULL, NoBody, 200) EXCEPT
                       !.rows = [k \in DOMAIN users |-> PerformanceEntry(users[k])]]
       /\ UNCHANGED <<leads, activities, nextLeadId, nextActivityId,
                    isEmailConfigured, pending, sockets>>

\* the name of the event of the route
EventType(op) ==
  CASE op = "leadCreate" -> "lead:created"
    [] op = "leadUpdate" -> "lead:updated"
    [] op = "leadDelete" -> "lead:deleted"
    [] op = "activityCreate" -> "activity:created"
    [] op = "activityUpdate" -> "activity:updated"
    [] op = "activityDelete" -> "activity:deleted"

IsDelete(op) == op \in {"leadDelete", "activityDelete"}

\* io.emit(name, payload): the id for a delete, else the instance, sent to
\* every connected socket
Emit(h) ==
  LET p == pending[h]
  IN /\ At(h, {"emit"})
     /\ pending' = [pending EXCEPT ![h] =
          Resume([p EXCEPT !.events =
                    Append(@, [type |-> EventType(p.op), id |-> p.id,
                               record |-> IF IsDelete(p.op) THEN NoLead
                                          ELSE p.inst])])]
     /\ sockets' = Deliver([type |-> EventType(p.op), id |-> p.id])
     /\ UNCHANGED <<leads, activities, nextLeadId, nextActivityId, resp,
                    isEmailConfigured>>

\* res.json: 201 for a create, 200 otherwise
Respond(h) ==
  LET p == pending[h]
  IN /\ At(h, {"respond"})
     /\ resp' = [Answer(p.op, p.user, p.id, p.body,
                        IF p.op \in {"leadCreate", "activityCreate"}
                        THEN 201 ELSE 200) EXCEPT
                   !.old = p.old,
                   !.rows = IF IsDelete(p.op) THEN <<>>
                            ELSE IF p.op = "stats" THEN <<StatsData(p.stats)>>
                            ELSE <<p.inst>>,
                   !.mails = p.mails,
                   !.events = p.events]
     /\ pending' = [pending EXCEPT ![h] = NoRequest]
     /\ UNCHANGED <<leads, activities, nextLeadId, nextActivityId,
                    isEmailConfigured, sockets>>

\* one step of the handler itself
HandlerStep(h) ==
  \/ Persist(h)
  \/ Audit(h)
  \/ Reload(h)
  \/ Notify(h)
  \/ Emit(h)
  \/ Respond(h)

(* ------------------------------ requests ------------------------------ *)

Acme == <<"A", "c">>

Mail == <<"x", "@", "y">>

\* POST /api/leads: the acting user and the body
LeadCreateRequests ==
  { <<1, [name |-> Acme, email |-> Mail]>>,
    <<3, [name |-> <<" ", "B", "o">>, email |-> Mail, company |-> <<"a", "c">>,
          status |-> "Won", estimatedValue |-> 5, assignedToId |-> 2,
          createdById |-> 1]>>,
    <<2, [name |-> <<" ">>, email |-> Mail]>> }

\* PUT /api/leads/:id: the acting user and the body
LeadUpdateRequests ==
  { <<u, [status |-> "Won"]>> : u \in Users }
  \cup
  { <<1, [assignedToId |-> NULL]>>,
    <<2, [createdById |-> 2]>>,
    <<3, [status |-> "Qualified", assignedToId |-> 2]>>,
    <<4, [assignedToId |-> 1]>>,
    <<2, [status |-> "Bogus"]>> }

\* GET /api/leads: the query string
LeadQueries ==
  { [none |-> TRUE],
    [search |-> <<"a", "C">>],
    [search |-> <<"_">>],
    [status |-> "Won", assignedToId |-> <<"2">>] }

\* POST /api/activities on a lead: the acting user and the body
ActivityCreateRequests(l) ==
  { <<1, [type |-> "Note", title |-> "Lead Created", leadId |-> l, userId |-> 4]>>,
    <<2, [type |-> "Call", title |-> "Call back", leadId |-> l]>>,
    <<3, [type |-> "Call", title |-> "Call back", leadId |-> l]>>,
    <<1, [type |-> "Bogus", title |-> "Call back", leadId |-> l]>>,
    <<2, [type |-> "Call", title |-> "Call back"]>> }

\* the requests above on every lead. The request sets that the actions draw
\* from are definitions without parameters: TLC evaluates such a definition
\* once, before its workers start, so no two workers build the same record
\* at the same time
ActivityCreateRequestsOnLeads ==
  UNION {ActivityCreateRequests(l) : l \in 1..MaxLeads}

\* POST /api/activities: a call logged on each lead
CallBodies ==
  {[type |-> "Call", title |-> "Call back", leadId |-> l] : l \in 1..MaxLeads}

\* POST /api/leads: a lead left unassigned, and a lead for user 1 or user 2
UnassignedLeadBody == [name |-> Acme, email |-> Mail]

AssignedLeadBody(u) == [name |-> Acme, email |-> Mail, assignedToId |-> u]

LeadBodyForUser1 == AssignedLeadBody(1)

LeadBodiesForExecutives == {AssignedLeadBody(u) : u \in {1, 2}}

\* the bodies of PUT /api/activities/:id
ActivityUpdateBodies ==
  { [title |-> "Follow up"],
    [title |-> " "] }

(* --------------------------- the lead routes -------------------------- *)

Next ==
  \/ \E u \in Users, q \in LeadQueries : LeadList(u, q)
  \/ \E u \in Users, l \in 1..MaxLeads : LeadGet(u, l)
  \/ \E r \in LeadCreateRequests : LeadCreate(r[1], r[2])
  \/ \E r \in LeadUpdateRequests, l \in 1..MaxLeads : LeadUpdate(r[1], l, r[2])
  \/ \E u \in Users, l \in 1..MaxLeads : LeadDelete(u, l)

Spec == Init /\ [][Next]_vars

(* ------------------------- the activity routes ------------------------ *)

NextActivities ==
  \/ \E r \in LeadCreateRequests : LeadCreate(r[1], r[2])
  \/ \E r \in ActivityCreateRequestsOnLeads : ActivityCreate(r[1], r[2])
  \/ \E u \in Users, a \in 1..MaxActivities, b \in ActivityUpdateBodies :
       ActivityUpdate(u, a, b)
  \/ \E u \in Users, a \in 1..MaxActivities : ActivityDelete(u, a)

SpecActivities == Init /\ [][NextActivities]_vars

(* ------------------- every route that changes a table ----------------- *)

\* PUT /api/leads/:id, one request of each role and one that fails validation
MutationUpdateRequests ==
  { <<2, [status |-> "Won"]>>,
    <<3, [status |-> "Won"]>>,
    <<4, [status |-> "Won"]>>,
    <<2, [status |-> "Bogus"]>> }

\* DELETE /api/leads/:id: a Sales Executive and a Manager
MutationDeleteUsers == {2, 3}

NextMutations ==
  \/ \E r \in LeadCreateRequests : LeadCreate(r[1], r[2])
  \/ \E r \in MutationUpdateRequests, l \in 1..MaxLeads :
       LeadUpdate(r[1], l, r[2])
  \/ \E u \in MutationDeleteUsers, l \in 1..MaxLeads : LeadDelete(u, l)
  \/ \E r \in ActivityCreateRequestsOnLeads : ActivityCreate(r[1], r[2])
  \/ \E u \in Users, a \in 1..MaxActivities, b \in ActivityUpdateBodies :
       ActivityUpdate(u, a, b)
  \/ \E u \in Users, a \in 1..MaxActivities : ActivityDelete(u, a)

SpecMutations == Init /\ [][NextMutations]_vars

(* ---------------------- the routes, await by await -------------------- *)

\* the requests served await by await: route, acting user, body
StepRequests ==
  { <<"leadCreate", 3, [name |-> Acme, email |-> Mail, assignedToId |-> 1]>>,
    <<"leadCreate", 2, [name |-> <<" ">>, email |-> Mail]>>,
    <<"leadUpdate", 3, [status |-> "Won"]>>,
    <<"leadUpdate", 4, [status |-> "Won", assignedToId |-> 2]>>,
    <<"leadDelete", 3, NoBody>>,
    <<"leadDelete", 2, NoBody>>,
    <<"activityCreate", 3, [type |-> "Call", title |-> "Call back"]>>,
    <<"activityUpdate", 3, [title |-> "Follow up"]>>,
    <<"activityDelete", 4, NoBody>> }

\* the request on a record: the key is the id of the route, and the leadId of
\* the body of an activity create
OnRecord(r, id) ==
  IF r[1] = "activityCreate"
  THEN <<r[1], r[2], NULL, [type |-> r[3].type, title |-> r[3].title,
                            leadId |-> id]>>
  ELSE IF r[1] = "leadCreate" THEN <<r[1], r[2], NULL, r[3]>>
  ELSE <<r[1], r[2], id, r[3]>>

\* the handler that serves the requests one at a time
H1 == "h1"

\* the record the requests served await by await are about: the first lead,
\* the first activity
StepIds == {1}

\* each request on each record
StepRequestsOnRecords == {OnRecord(r, id) : r \in StepRequests, id \in StepIds}

InitSteps ==
  /\ leads = <<>>
  /\ activities = <<>>
  /\ nextLeadId = 1
  /\ nextActivityId = 1
  /\ resp = Blank("none", NULL, NULL, NoBody)
  /\ isEmailConfigured \in BOOLEAN
  /\ pending = [h \in Handlers |-> NoRequest]
  /\ sockets = [s \in SocketIds |-> NoSocket]

NextSteps ==
  \/ \E q \in StepRequestsOnRecords : Begin(H1, q[1], q[2], q[3], q[4])
  \/ HandlerStep(H1)
  \/ \E resolved \in BOOLEAN : SendMailSettles(H1, resolved)

SpecSteps == InitSteps /\ [][NextSteps]_vars

\* the handler is scheduled whenever it can run; nothing is assumed of the
\* mail transport
SpecStepsFair == SpecSteps /\ WF_vars(HandlerStep(H1))

(* ------------------------------ the dashboard ------------------------- *)

\* POST /api/leads while the dashboard is in use
StatsCreateRequests ==
  { <<1, [name |-> Acme, email |-> Mail]>>,
    <<3, [name |-> Acme, email |-> Mail, status |-> "Won",
          estimatedValue |-> 5, assignedToId |-> 2]>> }

\* PUT /api/leads/:id while the dashboard is in use
StatsUpdateRequests ==
  { <<3, [status |-> "Won"]>>,
    <<3, [status |-> "Lost", estimatedValue |-> 2]>> }

\* a request that changes the leads, served with nothing in between
StatsMutation ==
  \/ \E r \in StatsCreateRequests : LeadCreate(r[1], r[2])
  \/ \E r \in StatsUpdateRequests, l \in 1..MaxLeads : LeadUpdate(r[1], l, r[2])
  \/ \E l \in 1..MaxLeads : LeadDelete(3, l)

\* the dashboard request of a user, query by query
StatsRequest ==
  \/ \E u \in Users : Begin(H1, "stats", u, NULL, NoBody)
  \/ StatsRead(H1)
  \/ Respond(H1)

\* the dashboard with no request served during its queries
NextStats ==
  \/ pending[H1].op = "none" /\ StatsMutation
  \/ StatsRequest

SpecStats == Init /\ [][NextStats]_vars

\* the dashboard with lead requests served between its queries
NextStatsConcurrent ==
  \/ StatsMutation
  \/ StatsRequest

SpecStatsConcurrent == Init /\ [][NextStatsConcurrent]_vars

(* ------------------------ the performance report ---------------------- *)

\* POST /api/leads: a lead created by one Sales Executive for the other, a
\* lead assigned to the deactivated user, a lead of one's own
PerformanceCreateRequests ==
  { <<1, [name |-> Acme, email |-> Mail, status |-> "Won",
          estimatedValue |-> 5, assignedToId |-> 2]>>,
    <<3, [name |-> Acme, email |-> Mail, estimatedValue |-> 2,
          assignedToId |-> 5]>>,
    <<2, [name |-> Acme, email |-> Mail, estimatedValue |-> 3]>> }

\* PUT /api/leads/:id
PerformanceUpdateRequests ==
  { <<3, [status |-> "Won"]>>, <<3, [assignedToId |-> 1]>> }

NextPerformance ==
  \/ \E r \in PerformanceCreateRequests : LeadCreate(r[1], r[2])
  \/ \E r \in PerformanceUpdateRequests, l \in 1..MaxLeads :
       LeadUpdate(r[1], l, r[2])
  \/ \E l \in 1..MaxLeads : LeadDelete(3, l)
  \/ \E u \in Users : Performance(u)

SpecPerformance == Init /\ [][NextPerformance]_vars

(* ------------------------------ the lead list ------------------------- *)

\* POST /api/leads by the Manager: two estimated values, so that two stored
\* leads have equal or distinct values
ListCreateRequests ==
  { <<3, [name |-> Acme, email |-> Mail, estimatedValue |-> 5]>>,
    <<3, [name |-> Acme, email |-> Mail, estimatedValue |-> 2,
          status |-> "Won"]>> }

\* GET /api/leads with page, limit, sortBy and sortOrder (a column of the
\* table and ASC or DESC; anything else is refused by the query builder)
ListPagedQueries ==
  { [page |-> <<"1">>, limit |-> <<"1">>],
    [page |-> <<"2">>, limit |-> <<"1">>],
    [page |-> <<"3">>, limit |-> <<"1">>],
    [page |-> <<"1">>, limit |-> <<"2">>],
    [page |-> <<"2">>, limit |-> <<"2">>],
    [page |-> <<"1">>, limit |-> <<"1">>, sortBy |-> "estimatedValue"],
    [page |-> <<"2">>, limit |-> <<"1">>, sortBy |-> "estimatedValue",
     sortOrder |-> "ASC"],
    [page |-> <<"1">>, limit |-> <<"1">>, status |-> "Won"] }

NextList ==
  \/ \E r \in ListCreateRequests : LeadCreate(r[1], r[2])
  \/ \E l \in 1..MaxLeads : LeadDelete(3, l)
  \/ \E q \in ListPagedQueries : LeadList(3, q)

SpecList == Init /\ [][NextList]_vars

(* ------------------------ requests with credentials ------------------- *)

AuthLeadBody == [name |-> Acme, email |-> Mail, assignedToId |-> 5]

AuthActivityBody(l) == [type |-> "Call", title |-> "Call back", leadId |-> l]

\* no token, the token of the Manager, of the deactivated user and of a
\* deleted user
AuthCredentials == {c \in Credentials : c.id \in {NULL, 3, 5, 6}}

\* every route of the three routers, reached with each of the credentials,
\* one request at a time
NextAuth ==
  \/ /\ pending[H1].op = "none"
     /\ \E cred \in AuthCredentials :
          \/ Route(cred, "leadList", NULL, NoBody, LeadList(cred.id, NoBody))
          \/ \E l \in 1..MaxLeads :
               Route(cred, "leadGet", l, NoBody, LeadGet(cred.id, l))
          \/ Route(cred, "leadCreate", NULL, AuthLeadBody,
                   LeadCreate(cred.id, AuthLeadBody))
          \/ \E l \in 1..MaxLeads :
               Route(cred, "leadUpdate", l, [status |-> "Won"],
                     LeadUpdate(cred.id, l, [status |-> "Won"]))
          \/ \E l \in 1..MaxLeads :
               Route(cred, "leadDelete", l, NoBody, LeadDelete(cred.id, l))
          \/ Route(cred, "activityList", NULL, NoBody,
                   ActivityList(cred.id, NoBody))
          \/ \E a \in 1..MaxActivities :
               Route(cred, "activityGet", a, NoBody, ActivityGet(cred.id, a))
          \/ \E l \in 1..MaxLeads :
               Route(cred, "activityCreate", NULL, AuthActivityBody(l),
                     ActivityCreate(cred.id, AuthActivityBody(l)))
          \/ \E a \in 1..MaxActivities :
               Route(cred, "activityUpdate", a, [title |-> "Follow up"],
                     ActivityUpdate(cred.id, a, [title |-> "Follow up"]))
          \/ \E a \in 1..MaxActivities :
               Route(cred, "activityDelete", a, NoBody,
                     ActivityDelete(cred.id, a))
          \/ Route(cred, "stats", NULL, NoBody,
                   Begin(H1, "stats", cred.id, NULL, NoBody))
          \/ Route(cred, "performance", NULL, NoBody, Performance(cred.id))
  \/ StatsRead(H1)
  \/ Respond(H1)

SpecAuth == Init /\ [][NextAuth]_vars

(* ------------------------------ the lead columns ---------------------- *)

\* POST /api/leads: without a status, with one, with a blank name, without a
\* name, with a status outside the list, with a negative estimatedValue
FieldCreateRequests ==
  { <<1, [name |-> Acme, email |-> Mail]>>,
    <<3, [name |-> Acme, email |-> Mail, status |-> "Qualified",
          estimatedValue |-> 5]>>,
    <<3, [name |-> <<" ">>, email |-> Mail]>>,
    <<3, [email |-> Mail]>>,
    <<3, [name |-> Acme, email |-> Mail, status |-> "Bogus"]>>,
    <<3, [name |-> Acme, email |-> Mail, estimatedValue |-> -1]>> }

\* PUT /api/leads/:id by the Manager
FieldUpdateBodies ==
  { [name |-> <<"B">>], [name |-> <<>>], [name |-> <<" ">>],
    [status |-> "Lost"], [status |-> "Bogus"],
    [estimatedValue |-> 3], [estimatedValue |-> -1],
    [createdById |-> NULL] }

NextFields ==
  \/ \E r \in FieldCreateRequests : LeadCreate(r[1], r[2])
  \/ \E b \in FieldUpdateBodies, l \in 1..MaxLeads : LeadUpdate(3, l, b)

SpecFields == Init /\ [][NextFields]_vars

(* ------------------------ the recent activities ----------------------- *)

\* the author of the activity with the key: user 2 once, user 1 otherwise
RecentAuthor(a) == IF a = 4 THEN 2 ELSE 1

\* the activities table after user 1 has created lead 1 for user 2 and the
\* two have logged n - 1 calls on it
RecentTable(n) ==
  [a \in 1..n |->
     IF a = 1 THEN LeadCreatedActivity(1, 1, 1)
     ELSE ActivityData(RecentAuthor(a), a,
                       [type |-> "Call", title |-> "Call back", leadId |-> 1])]

InitRecent ==
  \E n \in 1..MaxStored :
    /\ leads = Put(<<>>, 1, LeadData(1, 1, [name |-> Acme, email |-> Mail,
                                             assignedToId |-> 2]))
    /\ activities = RecentTable(n)
    /\ nextLeadId = 2
    /\ nextActivityId = n + 1
    /\ resp = Blank("none", NULL, NULL, NoBody)
    /\ isEmailConfigured = FALSE
    /\ pending = [h \in Handlers |-> NoRequest]
    /\ sockets = [s \in SocketIds |-> NoSocket]

\* the dashboard asked by a Sales Executive with many activities, by one with
\* a single activity and by the Manager, and the Admin deleting an old and a
\* new activity in between the requests
NextRecent ==
  \/ /\ pending[H1].op = "none"
     /\ \E a \in {2, MaxStored} : ActivityDelete(4, a)
  \/ \E u \in {1, 2, 3} : Begin(H1, "stats", u, NULL, NoBody)
  \/ StatsRead(H1)
  \/ Respond(H1)

SpecRecent == InitRecent /\ [][NextRecent]_vars

(* ------------------------------ the sockets --------------------------- *)

\* a handshake without a token, with a token that does not verify, with the
\* token of a Sales Executive, of the Manager, of the deactivated user and of
\* a deleted user
SocketHandshakes ==
  {hs \in Handshakes : hs.cred.id \in {NULL, 1, 3, 5, 6}}

\* the lead ids a client names; the handlers do not look the lead up
SubscribedIds == {1, 2}

\* one client that connects with any handshake and subscribes to leads, a
\* second one that connects as the Manager, and the Manager creating and
\* deleting leads meanwhile
NextSockets ==
  \/ \E hs \in SocketHandshakes : Connect("s1", hs)
  \/ \E hs \in SocketHandshakes : hs.cred.id = 3 /\ Connect("s2", hs)
  \/ \E l \in SubscribedIds : LeadSubscribe("s1", l)
  \/ \E l \in SubscribedIds : LeadUnsubscribe("s1", l)
  \/ \E s \in SocketIds : Disconnect(s)
  \/ LeadCreate(3, UnassignedLeadBody)
  \/ \E l \in 1..MaxLeads : LeadDelete(3, l)

SpecSockets == Init /\ [][NextSockets]_vars

(* ------------------------ two updates of one lead --------------------- *)

\* PUT /api/leads/:id by the Manager
RaceUpdateBodies == { [status |-> "Won"], [status |-> "Lost"] }

\* the Manager creates a lead, then two update requests for it are served
\* await by await, in any interleaving
NextRace ==
  \/ /\ \A h \in Handlers : pending[h].op = "none"
     /\ LeadCreate(3, UnassignedLeadBody)
  \/ \E h \in Handlers, b \in RaceUpdateBodies : Begin(h, "leadUpdate", 3, 1, b)
  \/ \E h \in Handlers :
       \/ PersistLeadUpdate(h)
       \/ Reload(h)
       \/ Audit(h)
       \/ Notify(h)
       \/ Emit(h)
       \/ Respond(h)

SpecRace == Init /\ [][NextRace]_vars

(* ---------------- activities while their lead is deleted -------------- *)

\* PUT /api/activities/:id: to another lead, or with another title
OrphanUpdateBodies == {[leadId |-> 2], [title |-> "Follow up"]}

\* the Manager creates leads for user 1 and deletes leads; meanwhile a request
\* of the Manager that creates an activity on a lead, or one that moves an
\* activity to another lead or retitles it, is served await by await
NextOrphans ==
  \/ /\ pending[H1].op = "none"
     /\ LeadCreate(3, LeadBodyForUser1)
  \/ \E l \in 1..MaxLeads : LeadDelete(3, l)
  \/ \E b \in CallBodies : Begin(H1, "activityCreate", 3, NULL, b)
  \/ \E a \in 1..MaxActivities, b \in OrphanUpdateBodies :
       Begin(H1, "activityUpdate", 3, a, b)
  \/ PersistActivityCreate(H1)
  \/ PersistActivityUpdate(H1)
  \/ Reload(H1)
  \/ Notify(H1)
  \/ Emit(H1)
  \/ Respond(H1)

SpecOrphans == Init /\ [][NextOrphans]_vars

(* ------------------------ the activities as read ---------------------- *)

\* the query strings of GET /api/activities
ActivityQueries ==
  { [none |-> TRUE],
    [leadId |-> <<"1">>],
    [type |-> "Call", page |-> <<"1">>, limit |-> <<"1">>],
    [page |-> <<"2">>, limit |-> <<"1">>] }

\* the Manager creates leads for each of the two sales executives; the
\* Manager and the first sales executive log activities on them; the second
\* sales executive and the Manager read the activities
NextReads ==
  \/ \E b \in LeadBodiesForExecutives : LeadCreate(3, b)
  \/ \E u \in {1, 3}, b \in CallBodies : ActivityCreate(u, b)
  \/ \E u \in {2, 3}, q \in ActivityQueries : ActivityList(u, q)
  \/ \E u \in {2, 3}, a \in 1..MaxActivities : ActivityGet(u, a)

SpecReads == Init /\ [][NextReads]_vars

(* ------------------- the author and the lead of an activity ----------- *)

\* bodies of PUT /api/activities/:id that name the columns the route sets at
\* creation; user 6 is not stored
OwnerUpdateBodies ==
  { [title |-> "Follow up"],
    [userId |-> 2],
    [leadId |-> 2],
    [title |-> "Follow up", userId |-> 6] }

\* the Manager creates leads and logs calls on them; the Manager, who is the
\* author of the activities, and the Admin update them
NextOwners ==
  \/ LeadCreate(3, LeadBodyForUser1)
  \/ \E b \in CallBodies : ActivityCreate(3, b)
  \/ \E u \in {3, 4}, a \in 1..MaxActivities, b \in OwnerUpdateBodies :
       ActivityUpdate(u, a, b)

SpecOwners == Init /\ [][NextOwners]_vars

(* ------------------------------ properties ---------------------------- *)

IsSalesExecutive(user) == Role(user) = "Sales Executive"

\* the lead is assigned to the user or was created by the user
Owns(user, lead) == lead.assignedToId = user \/ lead.createdById = user

\* case-insensitive substring test
Contains(v, s) ==
  /\ v # NULLTEXT
  /\ \E i \in 1..(Len(v) - Len(s) + 1) :
       \A j \in 1..Len(s) : Lower(v[i + j - 1]) = Lower(s[j])

\* the activities a step has inserted
Inserted == {a \in DOMAIN activities' : a \notin DOMAIN activities}

\* C1: every lead that the list endpoint or a successful get-by-id returns to
\* a Sales Executive is, as stored at that moment, assigned to or created by
\* that user.
C1_SalesExecutiveReadsOwnLeads ==
  (resp.op \in {"leadList", "leadGet"} /\ resp.code = 200
     /\ IsSalesExecutive(resp.user)) =>
    \A i \in 1..Len(resp.rows) :
      /\ resp.rows[i].id \in LeadIds
      /\ leads[resp.rows[i].id] = resp.rows[i]
      /\ Owns(resp.user, resp.rows[i])

\* a Sales Executive lists, gets a lead back, and another stored lead is not theirs
C1_Witness ==
  /\ resp.op = "leadList" /\ resp.code = 200
  /\ IsSalesExecutive(resp.user)
  /\ Len(resp.rows) >= 1
  /\ \E l \in LeadIds : ~Owns(resp.user, leads[l])

\* the leads the list endpoint is said to match for a user and a query
C2_Expected(user, query) ==
  { l \in LeadIds :
      /\ IsSalesExecutive(user) => Owns(user, leads[l])
      /\ Has(query, "status") => leads[l].status = query.status
      /\ Has(query, "assignedToId") =>
           leads[l].assignedToId = ParseInt(query.assignedToId)
      /\ Has(query, "search") =>
           \/ Contains(leads[l].name, query.search)
           \/ Contains(leads[l].email, query.search)
           \/ Contains(leads[l].company, query.search) }

\* C2: the leads matched by the list endpoint (the total it reports, and the
\* rows of an unpaged answer) are exactly the stored leads within the user's
\* visibility scope that have the status and the assignee of the filters and
\* contain the search string, case-insensitively, in name, email or company.
C2_ListMatchesExactly ==
  (resp.op = "leadList" /\ resp.code = 200) =>
    /\ resp.total = Cardinality(C2_Expected(resp.user, resp.body))
    /\ {resp.rows[i].id : i \in 1..Len(resp.rows)} = C2_Expected(resp.user, resp.body)

\* C3: for an existing lead, get-by-id and update answer Forbidden exactly when
\* the user is a Sales Executive who is neither the assignee nor the creator of
\* the lead as fetched, a Forbidden update leaves the lead as it was, and
\* otherwise they succeed; a Sales Executive who creates a lead without
\* assignedToId is stored as its assignee.
C3_OwnerOrManagerMayReadAndUpdate ==
  /\ (resp.op = "leadGet" /\ resp.id \in LeadIds) =>
       LET denied == IsSalesExecutive(resp.user) /\ ~Owns(resp.user, leads[resp.id])
       IN /\ resp.code = (IF denied THEN 403 ELSE 200)
          /\ ~denied => resp.rows = <<leads[resp.id]>>
  /\ (resp.op = "leadUpdate" /\ resp.old # NoLead) =>
       LET denied == IsSalesExecutive(resp.user) /\ ~Owns(resp.user, resp.old)
       IN /\ resp.code = (IF denied THEN 403 ELSE 200)
          /\ denied => (resp.id \in LeadIds /\ leads[resp.id] = resp.old)
  /\ (resp.op = "leadCreate" /\ resp.code = 201 /\ ~Has(resp.body, "assignedToId")) =>
       leads[resp.id].assignedToId = resp.user

\* a Sales Executive who owns nothing of the lead is refused an update of it
C3_Witness ==
  /\ resp.op = "leadUpdate" /\ resp.code = 403
  /\ IsSalesExecutive(resp.user)
  /\ resp.id \in LeadIds
  /\ IsSalesExecutive(leads[resp.id].createdById)

\* C4: a lead is removed only by a delete request of a Manager or an Admin; a
\* Sales Executive's delete request answers Forbidden, whether the lead exists
\* or not and whoever owns it, and removes no lead and no activity.
C4_OnlyManagerOrAdminDeletes ==
  [][ /\ (resp'.op = "leadDelete" /\ IsSalesExecutive(resp'.user)) =>
           (resp'.code = 403 /\ leads' = leads /\ activities' = activities)
      /\ (\E l \in DOMAIN leads : l \notin DOMAIN leads') =>
           (resp'.op = "leadDelete" /\ Role(resp'.user) \in {"Manager", "Admin"})
    ]_vars

\* a Sales Executive is refused the deletion of a lead they created
C4_Witness ==
  /\ resp.op = "leadDelete" /\ resp.code = 403
  /\ IsSalesExecutive(resp.user)
  /\ resp.id \in LeadIds
  /\ leads[resp.id].createdById = resp.user

\* C5: an existing activity is changed or removed by the activity endpoints
\* only for its author or an Admin; for anyone else, a Manager included, a
\* valid update and a delete answer Forbidden and leave the activities as
\* they were.
C5_OnlyAuthorOrAdminChangesActivity ==
  [][ /\ (resp'.op \in {"activityUpdate", "activityDelete"}
            /\ resp'.id \in DOMAIN activities /\ resp'.code # 400) =>
           LET allowed == \/ activities[resp'.id].userId = resp'.user
                          \/ Role(resp'.user) = "Admin"
           IN IF allowed THEN resp'.code = 200
              ELSE resp'.code = 403 /\ activities' = activities
      /\ \A a \in DOMAIN activities :
           (a \notin DOMAIN activities' \/ activities'[a] # activities[a]) =>
             /\ resp'.op \in {"activityUpdate", "activityDelete"}
             /\ resp'.id = a
             /\ (activities[a].userId = resp'.user \/ Role(resp'.user) = "Admin")
    ]_vars

\* a Manager is refused the update of an activity of another author, on a
\* lead that the Manager may update
C5_Witness ==
  /\ resp.op = "activityUpdate" /\ resp.code = 403
  /\ Role(resp.user) = "Manager"
  /\ resp.id \in ActivityIds
  /\ activities[resp.id].leadId \in LeadIds

\* C6: creating an activity for an existing lead answers Forbidden, and stores
\* nothing, for a Sales Executive who is neither assignee nor creator of the
\* lead; a successful create stores exactly one activity, of that lead and of
\* the acting user, whatever userId the body carries.
C6_ActivityCreateChecksLeadAndSetsAuthor ==
  [][ (resp'.op = "activityCreate" /\ resp'.code \in {201, 403}) =>
        LET lead   == leads[resp'.body.leadId]
            denied == IsSalesExecutive(resp'.user) /\ ~Owns(resp'.user, lead)
        IN /\ resp'.body.leadId \in DOMAIN leads
           /\ resp'.code = (IF denied THEN 403 ELSE 201)
           /\ denied => activities' = activities
           /\ ~denied =>
                /\ Cardinality(Inserted) = 1
                /\ \A a \in DOMAIN activities :
                     a \in DOMAIN activities' /\ activities'[a] = activities[a]
                /\ \A a \in Inserted :
                     /\ activities'[a].leadId = resp'.body.leadId
                     /\ activities'[a].userId = resp'.user
    ]_vars

\* an activity was stored for a request whose body names another user
C6_Witness ==
  /\ resp.op = "activityCreate" /\ resp.code = 201
  /\ Has(resp.body, "userId") /\ resp.body.userId # resp.user
  /\ resp.id \in ActivityIds
  /\ activities[resp.id].userId = resp.user

\* the audit activities of a lead's creation: type Note, title "Lead Created",
\* of that lead, by its creator
LeadCreatedNotes(acts, lds, l) ==
  { a \in DOMAIN acts :
      /\ acts[a].type = "Note" /\ acts[a].title = "Lead Created"
      /\ acts[a].leadId = l /\ acts[a].userId = lds[l].createdById }

InsertedStatusChanges ==
  {a \in Inserted : activities'[a].type = "Status Change"}

\* C8: a lead update that changes the stored status from A to B stores exactly
\* one Status Change activity, of that lead, with metadata {oldStatus: A,
\* newStatus: B}; a lead update request that leaves the status as it was
\* stores no Status Change activity.
C8_StatusChangeAudited ==
  [][ (resp'.op = "leadUpdate" /\ resp'.id \in DOMAIN leads) =>
        LET A == leads[resp'.id].status
            B == leads'[resp'.id].status
        IN IF A # B
           THEN /\ Cardinality(InsertedStatusChanges) = 1
                /\ \A a \in InsertedStatusChanges :
                     /\ activities'[a].leadId = resp'.id
                     /\ activities'[a].metadata =
                          {<<"oldStatus", A>>, <<"newStatus", B>>}
           ELSE InsertedStatusChanges = {}
    ]_vars

\* an update has changed the status of a lead
C8_Witness ==
  /\ resp.op = "leadUpdate" /\ resp.code = 200
  /\ resp.old.status # leads[resp.id].status
  /\ \E a \in ActivityIds :
       /\ activities[a].type = "Status Change"
       /\ activities[a].leadId = resp.id

\* the "Lead Reassigned" notes among the activities a step has inserted
InsertedReassigned ==
  {a \in Inserted : /\ activities'[a].type = "Note"
                    /\ activities'[a].title = "Lead Reassigned"}

\* C9: a lead update that changes the stored assignedToId, to a user or to
\* null, stores exactly one Note titled "Lead Reassigned" for that lead and
\* sends exactly one assignment notification to the new assignee when there is
\* one; an update that leaves assignedToId as it was stores no such note.
C9_ReassignmentAudited ==
  [][ (resp'.op = "leadUpdate" /\ resp'.id \in DOMAIN leads) =>
        LET old == leads[resp'.id].assignedToId
            new == leads'[resp'.id].assignedToId
            sent == {i \in 1..Len(resp'.mails) :
                       resp'.mails[i].template = "leadAssigned"}
        IN IF old # new
           THEN /\ Cardinality(InsertedReassigned) = 1
                /\ \A a \in InsertedReassigned : activities'[a].leadId = resp'.id
                /\ new # NULL =>
                     /\ Cardinality(sent) = 1
                     /\ \A i \in sent : resp'.mails[i].to = new
           ELSE InsertedReassigned = {}
    ]_vars

\* C10: a lead is created with createdById the acting user, whatever the body
\* carries, and no later request changes the createdById of a stored lead.
C10_CreatedByIdNeverChanges ==
  [][ /\ (resp'.op = "leadCreate" /\ resp'.code = 201) =>
           leads'[resp'.id].createdById = resp'.user
      /\ \A l \in DOMAIN leads :
           l \in DOMAIN leads' => leads'[l].createdById = leads[l].createdById
    ]_vars

\* C11: a successful delete of a lead removes the lead and every activity
\* whose leadId is that lead, and leaves every other activity as it was.
C11_DeleteCascades ==
  [][ (resp'.op = "leadDelete" /\ resp'.code = 200) =>
        /\ resp'.id \in DOMAIN leads /\ resp'.id \notin DOMAIN leads'
        /\ \A a \in DOMAIN activities' :
             a \in DOMAIN activities /\ activities'[a].leadId # resp'.id
        /\ \A a \in DOMAIN activities :
             activities[a].leadId # resp'.id =>
               (a \in DOMAIN activities' /\ activities'[a] = activities[a])
    ]_vars

\* a lead was deleted, its activity went with it and the activity of another
\* lead is still stored
C11_Witness ==
  /\ resp.op = "leadDelete" /\ resp.code = 200
  /\ ActivityIds # {}
  /\ ActivityIds # 1..(nextActivityId - 1)

\* C12: after a successful lead update every column whose key is absent from
\* the body has its previous value and every column whose key is present has
\* the value of the body, null included; no other lead is changed.
C12_UpdateIsPartial ==
  [][ (resp'.op = "leadUpdate" /\ resp'.code = 200) =>
        LET l == resp'.id
        IN /\ l \in DOMAIN leads /\ DOMAIN leads' = DOMAIN leads
           /\ leads'[l].id = l
           /\ \A k \in LeadColumns :
                leads'[l][k] = IF Has(resp'.body, k) THEN resp'.body[k]
                               ELSE leads[l][k]
           /\ \A m \in DOMAIN leads \ {l} : leads'[m] = leads[m]
    ]_vars

\* an update with assignedToId null has cleared the assignee of a lead
C12_Witness ==
  /\ resp.op = "leadUpdate" /\ resp.code = 200
  /\ Has(resp.body, "assignedToId") /\ resp.body.assignedToId = NULL
  /\ resp.old.assignedToId # NULL
  /\ leads[resp.id].assignedToId = NULL

\* the requests that change a table
MutationOps ==
  {"leadCreate", "leadUpdate", "leadDelete", "activityCreate",
   "activityUpdate", "activityDelete"}

\* C13: a create, update or delete request on a lead or an activity that is
\* answered 400, 403 or 404 leaves the leads and the activities as they were,
\* sends no mail and publishes no event.
C13_FailedRequestChangesNothing ==
  [][ (resp'.op \in MutationOps /\ resp'.code \in {400, 403, 404}) =>
        /\ leads' = leads /\ activities' = activities
        /\ nextLeadId' = nextLeadId /\ nextActivityId' = nextActivityId
        /\ resp'.mails = <<>> /\ resp'.events = <<>>
    ]_vars

\* an activity delete was refused while the activity is stored
C13_Witness ==
  /\ resp.op = "activityDelete" /\ resp.code = 403
  /\ resp.id \in ActivityIds
  /\ LeadIds # {}

\* the body passes the validation chain of the route
C14_Valid(op, body) ==
  CASE op = "leadUpdate" -> UpdateValid(body)
    [] op = "activityCreate" -> ActivityCreateValid(body)
    [] op = "activityUpdate" -> ActivityUpdateValid(body)

\* the record the request is about is stored
C14_Exists(op, id, body) ==
  CASE op = "leadUpdate" -> id \in LeadIds
    [] op = "activityCreate" -> Has(body, "leadId") /\ body.leadId \in LeadIds
    [] op = "activityUpdate" -> id \in ActivityIds

\* C14: lead update, activity create and activity update validate, then fetch,
\* then authorize: an invalid body is answered 400 whether or not the record
\* exists and whoever asks, a valid request for a missing record is answered
\* 404 for every role, and 403 is answered only for a record that exists.
C14_ValidateFetchAuthorize ==
  [][ (resp'.op \in {"leadUpdate", "activityCreate", "activityUpdate"}) =>
        LET valid  == C14_Valid(resp'.op, resp'.body)
            exists == C14_Exists(resp'.op, resp'.id, resp'.body)
        IN /\ ~valid => resp'.code = 400
           /\ (valid /\ ~exists) => resp'.code = 404
           /\ resp'.code = 403 => (valid /\ exists)
    ]_vars

\* an invalid lead update for a lead that is not stored was answered 400
C14_Witness ==
  /\ resp.op = "leadUpdate" /\ resp.code = 400
  /\ resp.id \notin LeadIds
  /\ IsSalesExecutive(resp.user)

\* the handler has its row change written and has not answered
InFlightPersisted(h) == pending[h].op # "none" /\ pending[h].persisted

\* C15: sendEmail never throws: without the mail configuration it returns the
\* failure "Email service not configured" and does not call the transport, for
\* an address without "@" it returns "Invalid email address", and when the
\* transport rejects it returns the failure; the handler goes on to its next
\* label with its row change kept, and a request that had a failed
\* notification and no database failure is answered 200 or 201.
C15_FailedNotificationDoesNotFail ==
  [][ \A h \in Handlers :
        LET p == pending[h]
            q == pending'[h]
        IN /\ (p.todo # <<>> /\ Head(p.todo) = "sending"
                  /\ q.todo # p.todo) =>
                /\ q.op = p.op /\ q.persisted /\ Len(q.mails) = Len(p.mails)
                /\ q.mails[Len(q.mails)].transport
                /\ leads' = leads /\ activities' = activities
           /\ (Len(q.mails) = Len(p.mails) + 1) =>
                LET m == q.mails[Len(q.mails)]
                IN /\ q.op = p.op /\ q.persisted
                   /\ leads' = leads /\ activities' = activities
                   /\ ~m.success
                   /\ ~isEmailConfigured =>
                        (~m.transport /\ m.error = "Email service not configured")
                   /\ (isEmailConfigured /\ ~Includes(Email(m.to), "@")) =>
                        (~m.transport /\ m.error = "Invalid email address")
           /\ (p.op # "none" /\ q.op = "none" /\ resp'.code = 500) =>
                (p.todo # <<>> /\ Head(p.todo) # "sending")
           /\ (p.todo = <<"respond">> /\ q.op = "none") =>
                (resp'.code \in {200, 201} /\ resp'.mails = p.mails)
    ]_vars

\* a request whose notification failed in the transport was answered with
\* success and its lead is stored
C15_Witness ==
  /\ resp.code \in {200, 201} /\ resp.op \in {"leadCreate", "leadUpdate"}
  /\ Len(resp.mails) >= 1
  /\ resp.mails[1].transport /\ ~resp.mails[1].success
  /\ resp.id \in LeadIds

\* C16: a handler whose row change is written eventually answers, whatever
\* the mail transport does.
C16_ResponseNotBlocked ==
  \A h \in Handlers :
    [](InFlightPersisted(h) => <>(pending[h].op = "none"))

\* the event name that belongs to the route
C17_EventOf(op) ==
  CASE op = "leadCreate" -> "lead:created"
    [] op = "leadUpdate" -> "lead:updated"
    [] op = "leadDelete" -> "lead:deleted"
    [] op = "activityCreate" -> "activity:created"
    [] op = "activityUpdate" -> "activity:updated"
    [] op = "activityDelete" -> "activity:deleted"

\* the row change of the request is in the table
C17_Persisted(p) ==
  LET table == IF p.op \in LeadOps THEN leads ELSE activities
  IN CASE p.op \in {"leadCreate", "activityCreate"} -> p.id \in DOMAIN table
       [] p.op \in {"leadDelete", "activityDelete"} -> p.id \notin DOMAIN table
       [] p.op \in {"leadUpdate", "activityUpdate"} ->
            /\ p.id \in DOMAIN table
            /\ \A k \in DOMAIN p.body : table[p.id][k] = p.body[k]

\* C17: a mutation request answered 200 or 201 has published exactly one
\* event, of the name of its route, carrying the id for a delete and the
\* reloaded record, equal to the stored row, otherwise; an event is published
\* only by a handler whose row change is in the table and which has not
\* answered, and the answer publishes nothing more.
C17_OneEventAfterPersistBeforeResponse ==
  [][ \A h \in Handlers :
        LET p == pending[h]
            q == pending'[h]
        IN /\ (q.events # p.events /\ q.op # "none") =>
                /\ p.op # "none" /\ q.op = p.op
                /\ p.persisted /\ C17_Persisted(p)
                /\ p.events = <<>> /\ Len(q.events) = 1
                /\ "respond" \in {q.todo[i] : i \in 1..Len(q.todo)}
                /\ resp' = resp /\ resp.code = 0
           /\ (p.op # "none" /\ q.op = "none" /\ resp'.code \in {200, 201}) =>
                /\ resp'.op = p.op /\ resp'.events = p.events
                /\ Len(resp'.events) = 1
                /\ resp'.events[1].type = C17_EventOf(p.op)
                /\ resp'.events[1].id = p.id
                /\ IF p.op \in {"leadDelete", "activityDelete"}
                   THEN resp'.events[1].record = NoLead
                   ELSE /\ resp'.events[1].record = p.inst
                        /\ resp'.rows = <<p.inst>>
                        /\ p.inst = (IF p.op \in LeadOps THEN leads
                                     ELSE activities)[p.id]
    ]_vars

\* a lead delete was answered with its one event and the lead is gone
C17_Witness ==
  /\ resp.op = "leadDelete" /\ resp.code = 200
  /\ Len(resp.events) = 1 /\ resp.events[1].type = "lead:deleted"
  /\ resp.id \notin LeadIds
  /\ nextLeadId > 1

\* C18: a lead create or lead update that has written its lead row ends with
\* the row stored, its event published and an answer that is not an error,
\* also when an audit Activity.create or the assignee lookup fails.
C18_SideEffectFailureTolerated ==
  [][ \A h \in Handlers :
        LET p == pending[h]
        IN (p.op \in {"leadCreate", "leadUpdate"} /\ p.persisted
              /\ pending'[h].op = "none") =>
             /\ resp'.code \in {200, 201}
             /\ Len(resp'.events) = 1
             /\ p.id \in DOMAIN leads'
    ]_vars

\* the data of a dashboard answer
StatsAnswered == resp.op = "stats" /\ resp.code = 200

\* C19: in every dashboard answer conversionRate is between 0 and 100 (in
\* hundredths: 0 and 10000), and it is 0 when the reported totalLeads is 0.
C19_ConversionRateInRange ==
  StatsAnswered =>
    LET data == resp.rows[1]
    IN /\ data.conversionRate >= 0 /\ data.conversionRate <= 10000
       /\ data.totalLeads = 0 => data.conversionRate = 0

\* the leads within the visibility scope of the user
C20_Visible(user) ==
  {l \in LeadIds : IsSalesExecutive(user) => Owns(user, leads[l])}

RECURSIVE C20_Sum(_)
C20_Sum(ids) ==
  IF ids = {} THEN 0
  ELSE LET l == CHOOSE x \in ids : TRUE
       IN leads[l].estimatedValue + C20_Sum(ids \ {l})

\* C20: with no request served during the queries, the dashboard answer has
\* totalLeads the number of visible leads, leadsByStatus the count of each
\* status that a visible lead has and no key for any other status, totalValue
\* the sum of estimatedValue over the visible leads, and for a Sales Executive
\* without a visible lead 0, 0, 0 and the empty object.
C20_StatsOverVisibleLeads ==
  StatsAnswered =>
    LET data    == resp.rows[1]
        visible == C20_Visible(resp.user)
    IN /\ data.totalLeads = Cardinality(visible)
       /\ DOMAIN data.leadsByStatus = {leads[l].status : l \in visible}
       /\ \A s \in DOMAIN data.leadsByStatus :
            data.leadsByStatus[s] =
              Cardinality({l \in visible : leads[l].status = s})
       /\ data.totalValue = C20_Sum(visible)
       /\ (IsSalesExecutive(resp.user) /\ visible = {}) =>
            /\ data.totalLeads = 0 /\ data.totalValue = 0
            /\ data.conversionRate = 0 /\ data.leadsByStatus = <<>>

\* a Sales Executive without a visible lead was answered while a lead with a
\* value is stored
C20_Witness ==
  /\ StatsAnswered /\ IsSalesExecutive(resp.user)
  /\ C20_Visible(resp.user) = {}
  /\ \E l \in LeadIds : leads[l].estimatedValue > 0

RECURSIVE C21_Sum(_)
C21_Sum(ids) ==
  IF ids = {} THEN 0
  ELSE LET l == CHOOSE x \in ids : TRUE
       IN leads[l].estimatedValue + C21_Sum(ids \ {l})

\* C21: the performance endpoint answers 200 exactly to Manager and Admin and
\* 403 to a Sales Executive; the answer has one entry for every user that is
\* active and a Sales Executive and no other entry; each entry's totalLeads,
\* wonLeads and totalValue are the count, the count of Won and the sum of
\* estimatedValue over the leads whose assignedToId is that user, with
\* wonLeads <= totalLeads and conversionRate 0 when totalLeads is 0.
C21_PerformanceOverAssignedLeads ==
  resp.op = "performance" =>
    /\ resp.code = IF Role(resp.user) \in {"Manager", "Admin"} THEN 200 ELSE 403
    /\ resp.code = 403 => resp.rows = <<>>
    /\ resp.code = 200 =>
         /\ \A u \in UserIds :
              Cardinality({k \in DOMAIN resp.rows : resp.rows[k].userId = u}) =
                IF IsActive(u) /\ IsSalesExecutive(u) THEN 1 ELSE 0
         /\ \A k \in DOMAIN resp.rows :
              LET e        == resp.rows[k]
                  assigned == {l \in LeadIds : leads[l].assignedToId = e.userId}
              IN /\ e.totalLeads = Cardinality(assigned)
                 /\ e.wonLeads =
                      Cardinality({l \in assigned : leads[l].status = "Won"})
                 /\ e.totalValue = C21_Sum(assigned)
                 /\ e.wonLeads <= e.totalLeads
                 /\ e.totalLeads = 0 => e.conversionRate = 0

\* the Manager was answered while a Sales Executive has created a Won lead
\* that is assigned to the other one, and the deactivated user has a lead
C21_Witness ==
  /\ resp.op = "performance" /\ resp.code = 200 /\ resp.user = 3
  /\ \E l \in LeadIds :
       /\ leads[l].createdById = 1 /\ leads[l].assignedToId = 2
       /\ leads[l].status = "Won"
  /\ \E l \in LeadIds : leads[l].assignedToId = 5

\* the matching leads of a list request
C22_Matched(user, query) ==
  {l \in LeadIds : ListWhere(user, query, leads[l])}

\* the sequences that put the leads in the order of the sort key
C22_Ordered(user, query) ==
  {o \in [1..Cardinality(C22_Matched(user, query)) -> C22_Matched(user, query)] :
     /\ \A l \in C22_Matched(user, query) : \E i \in DOMAIN o : o[i] = l
     /\ \A i, j \in DOMAIN o :
          i < j =>
            LET a == IF Get(query, "sortBy", "createdAt") = "estimatedValue"
                     THEN leads[o[i]].estimatedValue ELSE o[i]
                b == IF Get(query, "sortBy", "createdAt") = "estimatedValue"
                     THEN leads[o[j]].estimatedValue ELSE o[j]
            IN IF Get(query, "sortOrder", "DESC") = "ASC" THEN a <= b ELSE a >= b}

\* the sort key takes a different value on every two matching leads
C22_KeyDistinct(user, query) ==
  \A l, m \in C22_Matched(user, query) :
    (l # m /\ Get(query, "sortBy", "createdAt") = "estimatedValue") =>
      leads[l].estimatedValue # leads[m].estimatedValue

\* the page number as the query string carries it
C22_PageText(p) ==
  <<CASE p = 1 -> "1" [] p = 2 -> "2" [] p = 3 -> "3" [] p = 4 -> "4"
      [] p = 5 -> "5" [] p = 6 -> "6" [] p = 7 -> "7" [] p = 8 -> "8"
      [] p = 9 -> "9">>

\* C22: a list answer for page >= 1 and limit >= 1 holds the rows at positions
\* (page-1)*limit+1 .. page*limit of the matching leads in sort order, that is
\* min(limit, max(0, total-(page-1)*limit)) rows; total is the number of
\* matching leads and pages is ceil(total/limit); and when the sort key is
\* distinct across the matching leads, the answers to pages 1..pages of the
\* same request on the same data hold every matching lead exactly once.
C22_PagesPartitionTheMatches ==
  (resp.op = "leadList" /\ resp.code = 200
     /\ ListPage(resp.body) >= 1 /\ ListLimit(resp.body) >= 1) =>
    LET user    == resp.user
        query   == resp.body
        page    == ListPage(query)
        limit   == ListLimit(query)
        matched == C22_Matched(user, query)
        total   == Cardinality(matched)
        size    == Min(limit, Max(0, total - (page - 1) * limit))
        pageOf(p) == [query EXCEPT !.page = C22_PageText(p)]
    IN /\ resp.total = total
       /\ resp.pages * limit >= total /\ (resp.pages - 1) * limit < total
       /\ Len(resp.rows) = size
       /\ \E o \in C22_Ordered(user, query) :
            \A k \in 1..size : resp.rows[k] = leads[o[(page - 1) * limit + k]]
       /\ C22_KeyDistinct(user, query) =>
            \A f \in [1..resp.pages -> ListOrders(user, query)] :
              \A l \in matched :
                Cardinality({pk \in (1..resp.pages) \X (1..limit) :
                               /\ pk[2] <= Len(ListRows(f[pk[1]], pageOf(pk[1])))
                               /\ ListRows(f[pk[1]], pageOf(pk[1]))[pk[2]].id = l})
                  = 1

\* the second page of two leads, one per page, sorted by estimatedValue with
\* distinct values, was answered
C22_Witness ==
  /\ resp.op = "leadList" /\ resp.code = 200
  /\ Has(resp.body, "sortBy") /\ ListPage(resp.body) = 2
  /\ resp.total = 2 /\ resp.pages = 2 /\ Len(resp.rows) = 1
  /\ C22_KeyDistinct(resp.user, resp.body)

\* C23: a request to a lead, activity or dashboard route whose credential is
\* not one of an active user (no token, a token that does not verify, a token
\* of a deactivated or of a deleted user) is answered 401 with no record in
\* the answer, and the step changes no Lead and no Activity, starts no handler
\* and publishes no event and no mail; every other answer is to an active user.
C23_UnauthenticatedIsRejected ==
  [][ (resp' # resp /\ resp'.op # "none") =>
        IF resp'.user \in UserIds /\ IsActive(resp'.user)
        THEN resp'.code # 401
        ELSE /\ resp'.code = 401
             /\ resp'.rows = <<>> /\ resp'.total = 0
             /\ resp'.events = <<>> /\ resp'.mails = <<>>
             /\ leads' = leads /\ activities' = activities
             /\ nextLeadId' = nextLeadId /\ nextActivityId' = nextActivityId
             /\ pending' = pending
    ]_vars

\* the deactivated user asked to delete a stored lead, which has an activity,
\* and was answered 401
C23_Witness ==
  /\ resp.op = "leadDelete" /\ resp.code = 401 /\ resp.user = 5
  /\ resp.id \in LeadIds
  /\ \E a \in ActivityIds : activities[a].leadId = resp.id

\* the body would give the lead an empty name, a status outside the seven, a
\* negative estimatedValue or no creator
C24_Violates(op, body) ==
  \/ op = "leadCreate" /\ ~Has(body, "name")
  \/ Has(body, "name") /\ \A i \in 1..Len(body.name) : body.name[i] = " "
  \/ Has(body, "status") /\
       body.status \notin {"New", "Contacted", "Qualified", "Proposal",
                           "Negotiation", "Won", "Lost"}
  \/ Has(body, "estimatedValue") /\ body.estimatedValue < 0
  \/ op = "leadUpdate" /\ Has(body, "createdById") /\ body.createdById = NULL

\* C24: after every lead create and update, each stored lead has a non-empty
\* name, one of the seven statuses, a non-negative estimatedValue and a
\* creator; a lead created without a status has status New; and a create or
\* update whose body would violate one of these is not answered with success
\* and leaves the leads as they were.
C24_LeadFieldsStayValid ==
  [][ /\ \A l \in DOMAIN leads' :
           /\ leads'[l].name # <<>> /\ leads'[l].name # NULLTEXT
           /\ leads'[l].status \in {"New", "Contacted", "Qualified", "Proposal",
                                    "Negotiation", "Won", "Lost"}
           /\ leads'[l].estimatedValue >= 0
           /\ leads'[l].createdById # NULL
      /\ (resp'.op = "leadCreate" /\ resp'.code = 201
            /\ ~Has(resp'.body, "status")) =>
           leads'[resp'.id].status = "New"
      /\ (resp'.op \in {"leadCreate", "leadUpdate"}
            /\ C24_Violates(resp'.op, resp'.body)) =>
           /\ resp'.code \notin {200, 201}
           /\ leads' = leads
    ]_vars

\* an update of a stored lead to a negative estimatedValue was refused
C24_Witness ==
  /\ resp.op = "leadUpdate" /\ resp.code = 400
  /\ Has(resp.body, "estimatedValue") /\ resp.body.estimatedValue < 0
  /\ resp.id \in LeadIds

\* the activities that the dashboard may show to the user
C25_Candidates(user) ==
  {a \in ActivityIds : IsSalesExecutive(user) => activities[a].userId = user}

\* C25: with no request served during the queries, recentActivities of a
\* dashboard answer holds at most 10 activities, each one stored and of the
\* candidate set (for a Sales Executive the activities with userId the user,
\* for Manager and Admin all activities), the later created first, as many as
\* there are candidates up to 10, and no candidate left out was created after
\* one that is shown.
C25_RecentActivitiesAreTheNewest ==
  StatsAnswered =>
    LET recent == resp.rows[1].recentActivities
        shown  == {recent[k].id : k \in DOMAIN recent}
        cands  == C25_Candidates(resp.user)
    IN /\ Len(recent) <= 10
       /\ Len(recent) = IF Cardinality(cands) < 10 THEN Cardinality(cands) ELSE 10
       /\ shown \subseteq cands
       /\ \A k \in DOMAIN recent : recent[k] = activities[recent[k].id]
       /\ \A i, j \in DOMAIN recent : i < j => recent[i].id > recent[j].id
       /\ \A a \in cands \ shown : \A b \in shown : a < b

\* a Sales Executive with more than 10 activities of their own was shown 10
\* while a later activity of another author is stored
C25_Witness ==
  /\ StatsAnswered /\ IsSalesExecutive(resp.user)
  /\ Cardinality(C25_Candidates(resp.user)) > 10
  /\ Len(resp.rows[1].recentActivities) = 10
  /\ \E a \in ActivityIds :
       /\ activities[a].userId # resp.user
       /\ a > resp.rows[1].recentActivities[10].id

\* what holds of a socket in a state
C26_Membership(sock) ==
  IF sock.connected
  THEN /\ sock.userId \in UserIds /\ IsActive(sock.userId)
       /\ sock.error = ""
       /\ <<"user", sock.userId>> \in sock.rooms
       /\ <<"role", Role(sock.userId)>> \in sock.rooms
       /\ {r[2] : r \in {x \in sock.rooms : x[1] = "lead"}} =
            {l \in DOMAIN sock.last : sock.last[l] = "lead:subscribe"}
  ELSE sock.rooms = {} /\ sock.received = <<>>

\* C26: a socket is connected only for a stored, active user named by a token
\* that verifies; while connected it is in the room of its user and the room
\* of its role, and in the room of lead L exactly when its last subscribe or
\* unsubscribe event for L was a subscribe; a socket that is not connected is
\* in no room, and an event emitted while it is not connected is not sent to
\* it, then or after it connects again.
C26_SocketRooms ==
  [][ \A s \in SocketIds :
        /\ C26_Membership(sockets'[s])
        /\ ~sockets[s].connected => sockets'[s].received = <<>>
        /\ (sockets[s].connected /\ sockets'[s].connected) =>
             \/ sockets'[s].received = sockets[s].received
             \/ /\ resp'.events # <<>>
                /\ sockets'[s].received =
                     Append(sockets[s].received, resp'.events[1])
    ]_vars

\* a connected client that has subscribed to a lead and unsubscribed again is
\* in the room of another lead only, and has been sent an event, while the
\* other socket, closed since, has nothing
C26_Witness ==
  /\ sockets["s1"].connected /\ sockets["s1"].userId = 1
  /\ DOMAIN sockets["s1"].last = {1, 2}
  /\ sockets["s1"].last[1] = "lead:unsubscribe"
  /\ <<"lead", 2>> \in sockets["s1"].rooms
  /\ <<"lead", 1>> \notin sockets["s1"].rooms
  /\ Len(sockets["s1"].received) = 1
  /\ ~sockets["s2"].connected /\ sockets["s2"].received = <<>>

\* C27: every Status Change activity that an update request stores has
\* metadata.oldStatus equal to the status that was stored immediately before
\* that request's own write, and newStatus different from it, also when
\* another update of the same lead is served between the request's fetch and
\* its write.
C27_AuditMatchesOwnWrite ==
  [][ \A h \in Handlers :
        (At(h, {"statusAudit"}) /\ pending'[h] # pending[h]
           /\ activities' # activities) =>
          LET row == activities'[nextActivityId]
          IN /\ <<"oldStatus", pending[h].before.status>> \in row.metadata
             /\ <<"newStatus", pending[h].before.status>> \notin row.metadata
    ]_vars

\* C28: in every state, also between the awaits of an activity create or an
\* activity update that a lead delete is served in between of, the leadId of
\* each stored activity is the id of a stored lead.
C28_ActivityLeadExists ==
  \A a \in ActivityIds : activities[a].leadId \in LeadIds

\* an activity create that found its lead was answered 500 without having
\* stored a row, the lead having been deleted before Activity.create ran
C28_Witness ==
  /\ resp.op = "activityCreate" /\ resp.code = 500
  /\ resp.old.id = resp.body.leadId
  /\ resp.body.leadId \notin LeadIds
  /\ nextActivityId = 2

\* the lead joined to a returned activity is stored and is assigned to the
\* user or was created by the user
C29_InScope(user, row) ==
  /\ row.lead # NoLead
  /\ row.lead.id \in LeadIds
  /\ \/ leads[row.lead.id].assignedToId = user
     \/ leads[row.lead.id].createdById = user

\* C29: every activity that the activity list or the activity get-by-id
\* route returns to a Sales Executive belongs to a lead that is assigned to
\* that Sales Executive or was created by them
C29_SalesExecutiveReadsOwnLeadsOnly ==
  ( /\ resp.op \in {"activityList", "activityGet"}
    /\ resp.code = 200
    /\ Role(resp.user) = "Sales Executive" )
  => \A k \in DOMAIN resp.rows : C29_InScope(resp.user, resp.rows[k])

\* C30: an activity keeps the userId and the leadId it was created with: no
\* activity update by its author or by an Admin, whatever its body, changes
\* either of the two columns
C30_AuthorAndLeadAreFixed ==
  [][ \A a \in ActivityIds :
        a \in DOMAIN activities' =>
          /\ activities'[a].userId = activities[a].userId
          /\ activities'[a].leadId = activities[a].leadId ]_vars

====
